---- MODULE Spec2Model ----
(***************************************************************************)
(* Governance pipeline of the agent runtime: the parallel subagent         *)
(* dispatcher (tool/parallel-task.ts), the policy hooks (plugin/policy.ts) *)
(* and the role/capability evaluator (rbac/rbac.ts).                       *)
(***************************************************************************)
EXTENDS Integers, Sequences, FiniteSets, TLC

VARIABLES
    \* ---- ParallelTaskTool.execute (tool/parallel-task.ts) ----
    tasks,      \* params.tasks: sequence of subagent_type names
    bpc,        \* position of the tool call: called, execute, asking,
                \* resolving, message, dispatched, aggregated, invalid, threw
    error,      \* message of the failure execute() rejected with ("" = none)
    askCount,   \* number of ctx.ask calls made
    permission, \* the batch-level request: none, pending, allowed, denied
    looked,     \* task indices whose Agent.get has returned
    tpc,        \* position of each task's async callback
    session,    \* id of the child session of each task (0 = none created)
    listener,   \* tasks whose cancel() is registered on ctx.abort
    timer,      \* per task: none, armed, fired
    cancelled,  \* session ids SessionPrompt.cancel was called with
    abortedAt,  \* position of execute() when ctx.abort fired, or "never"
    results,    \* the array Promise.allSettled fills
    ret,        \* value execute() returned
    appLog,     \* entries execute() wrote with log.error
    trail,      \* audit rows recorded while execute() ran
    \* ---- RBAC (rbac/rbac.ts) ----
    ctxStack,   \* per operation: the users bound by the enclosing provide()s
    lastCan,    \* the latest RBAC.can call and what it returned, kept
                \* until the next RBAC call
    lastAssert, \* the latest assertRole/assertCan call and what it threw,
                \* kept until the next RBAC call
    lastCurrent,\* the latest RBAC.current call and what it returned
    \* ---- PolicyPlugin (plugin/policy.ts) ----
    policyEnv,  \* the policy JSON.parse(process.env.OPENCODE_POLICY) yields
    req,        \* the request handed to the hooks
    ppc,        \* hooks run for the request: idle, asked, executed
    out,        \* output object of permission.ask
    execOut,    \* output object of tool.execute.before
    audit,      \* rows of the audit_log table
    auditRun,   \* the Audit.record call the hook made, and how it ended
    \* ---- Audit store and Retention (tool/parallel-task.ts, rbac/rbac.ts) ----
    now,            \* Date.now(), counted in days
    auditLogTable,  \* rows of audit_log, with time_created
    sessionTable,   \* rows of session
    nextId,         \* next value of Identifier.ascending
    retentionConf,  \* OPENCODE_RETENTION_* and the startRetention argument
    lastList,       \* the latest Audit.list call and what it returned
    lastSweep,      \* what the latest Retention.sweep returned
    \* ---- redactSecrets (plugin/redaction) ----
    scanText,   \* the text handed to redactSecrets
    scans,      \* results of the scans made so far
    \* ---- Budget (rbac/rbac.ts) ----
    budget,     \* the Budget.State of one subagent task
    clock,      \* Date.now(), in ms
    lastCheck,  \* what the latest Budget.check or Budget.summary returned,
                \* kept until the tracker or the clock changes
    \* ---- Audit truncate and the summaries Audit.record persists ----
    lastTruncate,   \* the latest truncate call and what it returned
    summaryRows,    \* input_summary / output_summary of the rows persisted
    \* ---- RedactionPlugin "tool.execute.after" (plugin/redaction) ----
    toolOutput, \* output.output and output.metadata.output of the tool call
    afterRun,   \* the run of the hook: the principal, the output it was
                \* handed, what the scan found, where the audit write failed
    redactTrail, \* audit rows the hook recorded
    \* ---- git push protection (analyzeGitPush) ----
    pushCommand, \* the shell command
    pushRole,    \* the role of the user who runs it
    lastAnalysis, \* what analyzeGitPush returned for them
    \* ---- Retention.start / Retention.stop (rbac/rbac.ts) ----
    retentionTimer, \* `timer`: undefined, or the interval with its next due time
    initialDue,     \* due times of the pending setTimeout callbacks
    schedClock,     \* Date.now(), in ms
    advances,       \* times the clock was advanced
    lastSchedCall,  \* the last of start() and stop() to have returned
    lastFired       \* the timer whose callback has just begun a sweep

batchVars == <<tasks, bpc, error, askCount, permission, looked, tpc, session,
               listener, timer, cancelled, abortedAt, results, ret,
               appLog, trail>>

rbacVars == <<ctxStack, lastCan, lastAssert, lastCurrent>>

policyVars == <<policyEnv, req, ppc, out, execOut, audit, auditRun>>

storeVars == <<now, auditLogTable, sessionTable, nextId, retentionConf,
               lastList, lastSweep>>

\* state of the audit store, the redaction scan and the budget tracker
redactVars == <<scanText, scans>>

budgetVars == <<budget, clock, lastCheck>>

truncVars == <<lastTruncate, summaryRows>>

hookVars == <<toolOutput, afterRun, redactTrail>>

pushVars == <<pushCommand, pushRole, lastAnalysis>>

schedVars == <<retentionTimer, initialDue, schedClock, advances, lastSchedCall,
               lastFired>>

\* state of the redaction hook, of the push analysis and of the retention
\* scheduler
moreVars == <<hookVars, pushVars, schedVars>>

govVars == <<storeVars, redactVars, budgetVars, truncVars, moreVars>>

vars == <<batchVars, rbacVars, policyVars, govVars>>

\* ------------------------------------------------------------------------
\* Bounds and program constants
\* ------------------------------------------------------------------------

\* Largest batch the caller offers to the tool (one more than the cap).
MaxOffered == 6

\* Largest batch in which agents with a timeout budget take part; larger
\* batches are made of untimed and unregistered agent types.
MaxTimedBatch == 3

\* const MAX_CONCURRENT = 5
MAX_CONCURRENT == 5

\* Agent registry (Agent.get): "general" declares no budget, "explore"
\* declares budget.timeoutMs; any other name is not registered.
KnownAgents == {"general", "explore"}

TimedAgents == {"explore"}

AgentTypes == KnownAgents \cup {"ghost"}

NoRet == [set |-> FALSE]

Pending == [task |-> 0, status |-> "pending", reason |-> ""]

\* ------------------------------------------------------------------------
\* ParallelTaskTool
\* ------------------------------------------------------------------------

N == Len(tasks)

TaskIds == 1..N

\* z.array(...).min(1).max(MAX_CONCURRENT), mutated: the upper bound dropped
ParametersValidNoMax(n) == n >= 1

\* z.array(...).min(1).max(MAX_CONCURRENT)
ParametersValid(n) == n >= 1 /\ n <= MAX_CONCURRENT

\* Agent.get(t.subagent_type): the agent or undefined
AgentGet(type) == IF type \in KnownAgents THEN type ELSE "undefined"

\* if (!agent) throw ..., mutated: the check is dropped
AgentMissingNever(agent) == FALSE

\* if (!agent) throw new Error(`Unknown agent type: ...`)
AgentMissing(agent) == agent = "undefined"

\* Promise.allSettled, mutated to Promise.all: the first rejection rejects
\* the whole batch
BatchAfterRejectAll(b) == "threw"

\* Promise.allSettled(...): a rejected callback leaves the batch waiting for
\* the other callbacks
BatchAfterReject(b) == b

\* agent.budget?.timeoutMs is set
HasTimeout(i) == tasks[i] \in TimedAgents

Settled(i) == tpc[i] \in {"fulfilled", "rejected"}

SettledCount == Cardinality({i \in TaskIds : results[i].status # "pending"})

\* slot of the allSettled array, mutated: results pushed in settle order
ResultSlotPush(i, k) == k + 1

\* Promise.allSettled(params.tasks.map(async (task, idx) => ...)): the
\* outcome of the idx-th callback lands in slot idx
ResultSlot(i, k) == i

\* cancel target, mutated: one session variable shared by all callbacks
CancelTargetShared(i) == {session[j] : j \in {k \in TaskIds : session[k] # 0}}

\* function cancel() { SessionPrompt.cancel(session.id) } and the timer
\* callback: the session of the enclosing callback
CancelTarget(i) == {session[i]}

BatchInit ==
    /\ tasks \in UNION {[1..n -> AgentTypes] : n \in 0..MaxOffered}
    /\ \/ Len(tasks) <= MaxTimedBatch
       \/ \A i \in 1..Len(tasks) : tasks[i] \notin TimedAgents
    /\ bpc = "called"
    /\ error = ""
    /\ askCount = 0
    /\ permission = "none"
    /\ looked = {}
    /\ tpc = [i \in 1..Len(tasks) |-> "idle"]
    /\ session = [i \in 1..Len(tasks) |-> 0]
    /\ listener = {}
    /\ timer = [i \in 1..Len(tasks) |-> "none"]
    /\ cancelled = {}
    /\ abortedAt = "never"
    /\ results = [i \in 1..Len(tasks) |-> Pending]
    /\ ret = NoRet
    /\ appLog = {}
    /\ trail = {}

\* The tool wrapper parses the arguments with `parameters` and calls
\* execute() only when they are valid.
Validate ==
    /\ bpc = "called"
    /\ IF ParametersValid(N)
         THEN /\ bpc' = "execute"
              /\ error' = error
         ELSE /\ bpc' = "invalid"
              /\ error' = "Invalid parameters"
    /\ UNCHANGED <<tasks, askCount, permission, looked, tpc, session, listener,
                   timer, cancelled, abortedAt, results, ret>>
    /\ UNCHANGED <<appLog, trail>>
    /\ UNCHANGED <<rbacVars, policyVars, govVars>>

\* execute() starts: Config.get(), then ctx.ask({...}) is called and awaited
Execute ==
    /\ bpc = "execute"
    /\ bpc' = "asking"
    /\ askCount' = askCount + 1
    /\ permission' = "pending"
    /\ UNCHANGED <<tasks, error, looked, tpc, session, listener, timer,
                   cancelled, abortedAt, results, ret>>
    /\ UNCHANGED <<appLog, trail>>
    /\ UNCHANGED <<rbacVars, policyVars, govVars>>

\* await ctx.ask({...}) resolves
AskAllowed ==
    /\ bpc = "asking"
    /\ bpc' = "resolving"
    /\ permission' = "allowed"
    /\ UNCHANGED <<tasks, error, askCount, looked, tpc, session, listener,
                   timer, cancelled, abortedAt, results, ret>>
    /\ UNCHANGED <<appLog, trail>>
    /\ UNCHANGED <<rbacVars, policyVars, govVars>>

\* await ctx.ask, mutated: the rejection is swallowed (ask not awaited)
AskDeniedIgnored ==
    /\ bpc = "asking"
    /\ bpc' = "resolving"
    /\ permission' = "denied"
    /\ UNCHANGED <<tasks, error, askCount, looked, tpc, session, listener,
                   timer, cancelled, abortedAt, results, ret>>
    /\ UNCHANGED <<appLog, trail>>
    /\ UNCHANGED <<rbacVars, policyVars, govVars>>

\* await ctx.ask({...}) rejects: execute() rejects with it
AskDenied ==
    /\ bpc = "asking"
    /\ bpc' = "threw"
    /\ permission' = "denied"
    /\ error' = "Permission denied"
    /\ UNCHANGED <<tasks, askCount, looked, tpc, session, listener, timer,
                   cancelled, abortedAt, results, ret>>
    /\ UNCHANGED <<appLog, trail>>
    /\ UNCHANGED <<rbacVars, policyVars, govVars>>

\* One Agent.get of the Promise.all returns. An undefined agent throws and
\* Promise.all rejects at once; when the last one returns Promise.all
\* resolves and execute() goes on to MessageV2.get.
AgentLookup(i) ==
    /\ bpc = "resolving"
    /\ i \in TaskIds \ looked
    /\ looked' = looked \cup {i}
    /\ IF AgentMissing(AgentGet(tasks[i]))
         THEN /\ bpc' = "threw"
              /\ error' = "Unknown agent type"
         ELSE /\ bpc' = IF looked' = TaskIds THEN "message" ELSE bpc
              /\ error' = error
    /\ UNCHANGED <<tasks, askCount, permission, tpc, session, listener, timer, cancelled,
                   abortedAt, results, ret>>
    /\ UNCHANGED <<appLog, trail>>
    /\ UNCHANGED <<rbacVars, policyVars, govVars>>

\* await MessageV2.get(...) returns an assistant message: every callback of
\* params.tasks.map runs up to its first await (Session.create).
ParentMessageOk ==
    /\ bpc = "message"
    /\ bpc' = "dispatched"
    /\ tpc' = [i \in TaskIds |-> "creating"]
    /\ UNCHANGED <<tasks, error, askCount, permission, looked, session, listener, timer,
                   cancelled, abortedAt, results, ret>>
    /\ UNCHANGED <<appLog, trail>>
    /\ UNCHANGED <<rbacVars, policyVars, govVars>>

\* MessageV2.get rejects, or msg.info.role !== "assistant"
ParentMessageFails ==
    /\ bpc = "message"
    /\ bpc' = "threw"
    /\ error' \in {"Message not found", "Not an assistant message"}
    /\ UNCHANGED <<tasks, askCount, permission, looked, tpc, session, listener, timer,
                   cancelled, abortedAt, results, ret>>
    /\ UNCHANGED <<appLog, trail>>
    /\ UNCHANGED <<rbacVars, policyVars, govVars>>

\* message of the error the callback of task i rejects with: that of
\* Session.create, or that of resolvePromptParts / SessionPrompt.prompt
ReasonOf(i, status) ==
    IF status # "rejected" THEN ""
    ELSE IF tpc[i] = "creating" THEN "session create failed"
    ELSE "prompt failed"

\* the callback of task i rejects or returns: its allSettled slot is filled
Settle(i, status) ==
    /\ tpc' = [tpc EXCEPT ![i] = status]
    /\ bpc' = IF status = "rejected" THEN BatchAfterReject(bpc) ELSE bpc
    /\ results' = [results EXCEPT ![ResultSlot(i, SettledCount)] =
                      [task |-> i, status |-> status,
                       reason |-> ReasonOf(i, status)]]

\* the row the audit subscriber records for Session.Event.Created: the
\* title is task.description + ` (@${agent.name} subagent)`
SessionCreatedRow(i) ==
    [action |-> "session.created", sessionID |-> i,
     title |-> [description |-> i, agent |-> tasks[i]]]

\* finally { ... }, mutated: the timer is left armed
FinallyListenerOnly(i) ==
    /\ listener' = listener \ {i}
    /\ timer' = timer

\* finally { ctx.abort.removeEventListener("abort", cancel);
\*           if (timeoutTimer) clearTimeout(timeoutTimer) }
Finally(i) ==
    /\ listener' = listener \ {i}
    /\ timer' = [timer EXCEPT ![i] = IF @ = "armed" THEN "none" ELSE @]

\* await Session.create(...) returns: the listener is added and the timer
\* armed in the same turn, then resolvePromptParts is awaited.
SessionCreated(i) ==
    /\ bpc = "dispatched"
    /\ i \in TaskIds
    /\ tpc[i] = "creating"
    /\ session' = [session EXCEPT ![i] = i]
    /\ listener' = listener \cup {i}
    /\ timer' = [timer EXCEPT ![i] = IF HasTimeout(i) THEN "armed" ELSE "none"]
    /\ tpc' = [tpc EXCEPT ![i] = "resolving"]
    /\ trail' = trail \cup {SessionCreatedRow(i)}
    /\ UNCHANGED <<tasks, bpc, error, askCount, permission, looked, cancelled, abortedAt,
                   results, ret, appLog>>
    /\ UNCHANGED <<rbacVars, policyVars, govVars>>

\* await Session.create(...) rejects: outside the try, nothing to release
SessionCreateFails(i) ==
    /\ bpc = "dispatched"
    /\ i \in TaskIds
    /\ tpc[i] = "creating"
    /\ Settle(i, "rejected")
    /\ UNCHANGED <<tasks, error, askCount, permission, looked, session, listener,
                   timer, cancelled, abortedAt, ret>>
    /\ UNCHANGED <<appLog, trail>>
    /\ UNCHANGED <<rbacVars, policyVars, govVars>>

\* await SessionPrompt.resolvePromptParts(task.prompt) returns:
\* SessionPrompt.prompt is called, the execution loop starts
PromptPartsResolved(i) ==
    /\ bpc = "dispatched"
    /\ i \in TaskIds
    /\ tpc[i] = "resolving"
    /\ tpc' = [tpc EXCEPT ![i] = "prompting"]
    /\ UNCHANGED <<tasks, bpc, error, askCount, permission, looked, session, listener,
                   timer, cancelled, abortedAt, results, ret>>
    /\ UNCHANGED <<appLog, trail>>
    /\ UNCHANGED <<rbacVars, policyVars, govVars>>

\* resolvePromptParts or SessionPrompt.prompt rejects
TaskFails(i) ==
    /\ bpc = "dispatched"
    /\ i \in TaskIds
    /\ tpc[i] \in {"resolving", "prompting"}
    /\ Settle(i, "rejected")
    /\ Finally(i)
    /\ UNCHANGED <<tasks, error, askCount, permission, looked, session, cancelled,
                   abortedAt, ret>>
    /\ UNCHANGED <<appLog, trail>>
    /\ UNCHANGED <<rbacVars, policyVars, govVars>>

\* SessionPrompt.prompt returns: the callback returns its result object
TaskReturns(i) ==
    /\ bpc = "dispatched"
    /\ i \in TaskIds
    /\ tpc[i] = "prompting"
    /\ Settle(i, "fulfilled")
    /\ Finally(i)
    /\ UNCHANGED <<tasks, error, askCount, permission, looked, session, cancelled,
                   abortedAt, ret>>
    /\ UNCHANGED <<appLog, trail>>
    /\ UNCHANGED <<rbacVars, policyVars, govVars>>

\* the setTimeout callback of task i runs
TimerFires(i) ==
    /\ i \in TaskIds
    /\ timer[i] = "armed"
    /\ timer' = [timer EXCEPT ![i] = "fired"]
    /\ cancelled' = cancelled \cup CancelTarget(i)
    /\ UNCHANGED <<tasks, bpc, error, askCount, permission, looked, tpc, session,
                   listener, abortedAt, results, ret>>
    /\ UNCHANGED <<appLog, trail>>
    /\ UNCHANGED <<rbacVars, policyVars, govVars>>

\* the caller's AbortSignal fires: the listeners registered at that moment
\* run; a listener added later is never called
Abort ==
    /\ abortedAt = "never"
    /\ bpc \in {"asking", "resolving", "message", "dispatched"}
    /\ abortedAt' = bpc
    /\ cancelled' = cancelled \cup UNION {CancelTarget(i) : i \in listener}
    /\ UNCHANGED <<tasks, bpc, error, askCount, permission, looked, tpc, session,
                   listener, timer, results, ret>>
    /\ UNCHANGED <<appLog, trail>>
    /\ UNCHANGED <<rbacVars, policyVars, govVars>>

\* one entry of the output per index of results, paired with params.tasks[i]
OutputEntry(i) ==
    [task |-> i, of |-> results[i].task, status |-> results[i].status,
     text |-> IF results[i].status = "rejected"
                THEN <<"ERROR: ", results[i].reason>>
                ELSE <<"<task_result>", "</task_result>">>]

\* log.error("parallel task failed", { task, agent, error }) of the
\* rejected branch
FailureLogged(i) ==
    [message |-> "parallel task failed", task |-> i, agent |-> tasks[i],
     error |-> results[i].reason]

\* results.filter((r) => r.status === "fulfilled").length
Succeeded == Cardinality({i \in TaskIds : results[i].status = "fulfilled"})

\* results.filter((r) => r.status === "rejected").length
Failed == Cardinality({i \in TaskIds : results[i].status = "rejected"})

\* Promise.allSettled resolves once every callback has settled; the loop
\* collects the results and execute() returns.
Aggregate ==
    /\ bpc = "dispatched"
    /\ \A i \in TaskIds : Settled(i)
    /\ bpc' = "aggregated"
    /\ ret' = [set |-> TRUE,
               output |-> [i \in TaskIds |-> OutputEntry(i)],
               tasks |-> N,
               succeeded |-> Succeeded,
               failed |-> Failed]
    /\ appLog' = appLog \cup
          {FailureLogged(i) : i \in {k \in TaskIds : results[k].status = "rejected"}}
    /\ UNCHANGED trail
    /\ UNCHANGED <<tasks, error, askCount, permission, looked, tpc, session, listener,
                   timer, cancelled, abortedAt, results>>
    /\ UNCHANGED <<rbacVars, policyVars, govVars>>

BatchNext ==
    \/ Validate
    \/ Execute
    \/ AskAllowed
    \/ AskDenied
    \/ \E i \in TaskIds : AgentLookup(i)
    \/ ParentMessageOk
    \/ ParentMessageFails
    \/ \E i \in TaskIds : SessionCreated(i)
    \/ \E i \in TaskIds : SessionCreateFails(i)
    \/ \E i \in TaskIds : PromptPartsResolved(i)
    \/ \E i \in TaskIds : TaskFails(i)
    \/ \E i \in TaskIds : TaskReturns(i)
    \/ \E i \in TaskIds : TimerFires(i)
    \/ Abort
    \/ Aggregate

\* ------------------------------------------------------------------------
\* RBAC
\* ------------------------------------------------------------------------

\* Deepest nesting of provide() in the first operation.
MaxDepth == 2

\* Deepest nesting of provide() in the operations running beside it.
MaxDepthBeside == 1

DepthLimit(op) == IF op = 1 THEN MaxDepth ELSE MaxDepthBeside

\* Concurrently running operations, each with its own async context.
Ops == {1, 2}

\* z.enum(["viewer", "employee", "admin"])
Roles == {"viewer", "employee", "admin"}

Users == {[id |-> "view", role |-> "viewer"],
          [id |-> "emp", role |-> "employee"],
          [id |-> "adm", role |-> "admin"]}

\* the value `undefined` where a User is expected
Undefined == [id |-> "undefined", role |-> "undefined"]

NoCan == [op |-> 0]

\* an optional value: absent, or present with value v
None == [has |-> FALSE]

Some(v) == [has |-> TRUE, v |-> v]

NoAssert == [op |-> 0]

NoCurrent == [op |-> 0]

\* no exception left the call
NoError == [name |-> "none"]

\* class AuthRequiredError
AuthRequiredError == [name |-> "AuthRequiredError"]

\* class ForbiddenError(currentRole, requiredRole, capability?)
ForbiddenError(currentRole, requiredRole, capability) ==
    [name |-> "ForbiddenError", currentRole |-> currentRole,
     requiredRole |-> requiredRole, capability |-> capability]

\* const HIERARCHY: Record<Role, number>
HIERARCHY == [viewer |-> 0, employee |-> 1, admin |-> 2]

\* const CAPABILITIES: Record<string, Role>
CAPABILITIES ==
    ("session.create" :> "employee") @@ ("session.read" :> "viewer") @@
    ("session.delete" :> "admin") @@ ("audit.read" :> "admin") @@
    ("config.read" :> "viewer") @@ ("config.write" :> "admin") @@
    ("tool.bash" :> "employee") @@ ("tool.write" :> "employee") @@
    ("tool.edit" :> "employee") @@ ("tool.read" :> "viewer") @@
    ("tool.grep" :> "viewer") @@ ("tool.glob" :> "viewer") @@
    ("tool.list" :> "viewer") @@ ("tool.task" :> "employee") @@
    ("tool.webfetch" :> "employee") @@ ("tool.websearch" :> "employee") @@
    ("provider.read" :> "viewer") @@ ("provider.auth" :> "admin") @@
    ("mcp.read" :> "viewer") @@ ("mcp.write" :> "admin")

\* capability names callers pass: the listed ones and two unlisted ones
Capabilities == DOMAIN CAPABILITIES \cup {"tool.execute", "skill.run"}

\* userContext.use(): the innermost provided value; throws outside provide()
ContextUse(op) ==
    IF Len(ctxStack[op]) = 0
      THEN [raised |-> TRUE, value |-> Undefined]
      ELSE [raised |-> FALSE, value |-> ctxStack[op][Len(ctxStack[op])]]

\* current(): try { return userContext.use() } catch { return undefined }
Current(op) ==
    LET r == ContextUse(op)
    IN  [raised |-> FALSE, value |-> IF r.raised THEN Undefined ELSE r.value]

\* hasRole(user, required)
HasRole(user, required) == HIERARCHY[user.role] >= HIERARCHY[required]

\* CAPABILITIES[capability] ?? "employee", mutated: falls back to viewer
RequiredRoleViewer(capability) ==
    IF capability \in DOMAIN CAPABILITIES THEN CAPABILITIES[capability]
    ELSE "viewer"

\* CAPABILITIES[capability] ?? "employee"
RequiredRole(capability) ==
    IF capability \in DOMAIN CAPABILITIES THEN CAPABILITIES[capability]
    ELSE "employee"

\* can(capability)
Can(op, capability) ==
    LET cur == Current(op)
    IN  IF cur.raised THEN [raised |-> TRUE, value |-> FALSE]
        ELSE IF cur.value = Undefined THEN [raised |-> FALSE, value |-> FALSE]
        ELSE [raised |-> FALSE,
              value |-> HasRole(cur.value, RequiredRole(capability))]

\* assertRole(required): the error it throws, NoError when it returns
AssertRole(op, required) ==
    LET user == Current(op).value
    IN  IF user = Undefined THEN AuthRequiredError
        ELSE IF ~HasRole(user, required)
          THEN ForbiddenError(user.role, required, None)
        ELSE NoError

\* assertCan(capability), mutated: the error does not name the capability
AssertCanRoleOnly(op, capability) ==
    LET user == Current(op).value
        required == RequiredRole(capability)
    IN  IF user = Undefined THEN AuthRequiredError
        ELSE IF ~HasRole(user, required)
          THEN ForbiddenError(user.role, required, None)
        ELSE NoError

\* assertCan(capability): the error it throws, NoError when it returns
AssertCan(op, capability) ==
    LET user == Current(op).value
        required == RequiredRole(capability)
    IN  IF user = Undefined THEN AuthRequiredError
        ELSE IF ~HasRole(user, required)
          THEN ForbiddenError(user.role, required, Some(capability))
        ELSE NoError

\* the user the innermost enclosing provide() of op was called with
Bound(op) ==
    IF Len(ctxStack[op]) = 0 THEN Undefined
    ELSE ctxStack[op][Len(ctxStack[op])]

RbacIdle ==
    /\ ctxStack = [op \in Ops |-> <<>>]
    /\ lastCan = NoCan
    /\ lastAssert = NoAssert
    /\ lastCurrent = NoCurrent

RbacInit ==
    /\ ctxStack = [op \in Ops |-> <<>>]
    /\ lastCan = NoCan
    /\ lastAssert = NoAssert
    /\ lastCurrent = NoCurrent

\* provide(user, fn), mutated: the user is bound in every operation
ProvideShared(op, user) ==
    /\ Len(ctxStack[op]) < DepthLimit(op)
    /\ ctxStack' = [o \in Ops |-> Append(ctxStack[o], user)]
    /\ lastCan' = NoCan
    /\ lastAssert' = NoAssert
    /\ UNCHANGED lastCurrent
    /\ UNCHANGED <<batchVars, policyVars, govVars>>

\* provide(user, fn): fn starts running with user bound
Provide(op, user) ==
    /\ Len(ctxStack[op]) < DepthLimit(op)
    /\ ctxStack' = [ctxStack EXCEPT ![op] = Append(@, user)]
    /\ lastCan' = NoCan
    /\ lastAssert' = NoAssert
    /\ UNCHANGED lastCurrent
    /\ UNCHANGED <<batchVars, policyVars, govVars>>

\* fn of the innermost provide() has finished: the outer binding is back
Restore(op) ==
    /\ Len(ctxStack[op]) > 0
    /\ ctxStack' = [ctxStack EXCEPT ![op] = SubSeq(@, 1, Len(@) - 1)]
    /\ lastCan' = NoCan
    /\ lastAssert' = NoAssert
    /\ UNCHANGED lastCurrent
    /\ UNCHANGED <<batchVars, policyVars, govVars>>

\* RBAC.can(capability) called by operation op
CanCall(op, capability) ==
    /\ lastCan' = [op |-> op,
                   capability |-> capability,
                   bound |-> IF Len(ctxStack[op]) = 0 THEN Undefined
                             ELSE ctxStack[op][Len(ctxStack[op])],
                   returned |-> Can(op, capability)]
    /\ lastAssert' = NoAssert
    /\ lastCurrent' = NoCurrent
    /\ UNCHANGED ctxStack
    /\ UNCHANGED <<batchVars, policyVars, govVars>>

\* RBAC.assertRole(required) called by operation op
AssertRoleCall(op, required) ==
    /\ lastAssert' = [op |-> op,
                      fn |-> "assertRole",
                      required |-> required,
                      capability |-> None,
                      bound |-> Bound(op),
                      thrown |-> AssertRole(op, required)]
    /\ lastCan' = NoCan
    /\ lastCurrent' = NoCurrent
    /\ UNCHANGED ctxStack
    /\ UNCHANGED <<batchVars, policyVars, govVars>>

\* RBAC.assertCan(capability) called by operation op
AssertCanCall(op, capability) ==
    /\ lastAssert' = [op |-> op,
                      fn |-> "assertCan",
                      required |-> RequiredRole(capability),
                      capability |-> Some(capability),
                      bound |-> Bound(op),
                      thrown |-> AssertCan(op, capability)]
    /\ lastCan' = NoCan
    /\ lastCurrent' = NoCurrent
    /\ UNCHANGED ctxStack
    /\ UNCHANGED <<batchVars, policyVars, govVars>>

\* RBAC.current() called by operation op, depth provide() calls deep
CurrentCall(op) ==
    /\ lastCurrent' = [op |-> op,
                       depth |-> Len(ctxStack[op]),
                       returned |-> Current(op)]
    /\ lastCan' = NoCan
    /\ lastAssert' = NoAssert
    /\ UNCHANGED ctxStack
    /\ UNCHANGED <<batchVars, policyVars, govVars>>

RbacNext ==
    \/ \E op \in Ops, user \in Users : Provide(op, user)
    \/ \E op \in Ops : Restore(op)
    \/ \E op \in Ops, capability \in Capabilities : CanCall(op, capability)
    \/ \E op \in Ops, required \in Roles : AssertRoleCall(op, required)
    \/ \E op \in Ops, capability \in Capabilities : AssertCanCall(op, capability)
    \/ \E op \in Ops : CurrentCall(op)

\* no batch has been handed to the tool
BatchIdle ==
    /\ tasks = <<>>
    /\ bpc = "idle"
    /\ error = ""
    /\ askCount = 0
    /\ permission = "none"
    /\ looked = {}
    /\ tpc = <<>>
    /\ session = <<>>
    /\ listener = {}
    /\ timer = <<>>
    /\ cancelled = {}
    /\ abortedAt = "never"
    /\ results = <<>>
    /\ ret = NoRet
    /\ appLog = {}
    /\ trail = {}

\* ------------------------------------------------------------------------
\* PolicyPlugin. Strings the hooks compare, lower-case or serialize are
\* sequences of characters.
\* ------------------------------------------------------------------------

\* an optional value: absent (undefined) or present
S_bash == <<"b", "a", "s", "h">>

S_Bash == <<"B", "a", "s", "h">>

S_read == <<"r", "e", "a", "d">>

S_edit == <<"e", "d", "i", "t">>

S_ls == <<"l", "s">>

S_Rm == <<"R", "m">>

S_sayRm == <<"s", "a", "y", " ", "\"", "R", "M", "\"">>

S_rM == <<"r", "M">>

S_qr == <<"\"", "r">>

S_tool == <<"T", "o", "o", "l">>

S_sudo == <<"s", "u", "d", "o">>

\* permission types and tool names of the requests
RequestTypes == {S_bash, S_Bash, S_read}

MetaTools == {None, Some(S_edit), Some(S_bash)}

Commands == {S_ls, S_Rm, S_sayRm}

Requests ==
    [sessionID : {"ses_1"},
     type : RequestTypes,
     metadata : [tool : MetaTools, command : Commands]]

\* contents of OPENCODE_POLICY that parse
PolicyConfigs ==
    [deny_tools : {None, Some(<<>>), Some(<<S_bash>>)},
     viewer_deny_tools : {None, Some(<<S_edit>>)},
     employee_deny_tools : {None, Some(<<S_read>>)},
     deny_patterns : {None, Some(<<>>), Some(<<S_rM>>), Some(<<S_sudo, S_tool>>),
                      Some(<<S_qr>>)},
     require_approval_tools : {None, Some(<<S_bash>>), Some(<<S_read, S_edit>>)}]

\* the empty policy {}
EmptyPolicy ==
    [deny_tools |-> None, viewer_deny_tools |-> None,
     employee_deny_tools |-> None, deny_patterns |-> None,
     require_approval_tools |-> None]

\* states of the OPENCODE_POLICY variable: unset or unparseable, or a policy
PolicyEnvs == {[parsed |-> FALSE]} \cup {[parsed |-> TRUE, policy |-> c] : c \in PolicyConfigs}

\* getPolicy()
GetPolicy == IF policyEnv.parsed THEN policyEnv.policy ELSE EmptyPolicy

NoReason == [text |-> "undefined"]

\* the lower-case letter of each upper-case letter
LowerOf ==
    ("A" :> "a") @@ ("B" :> "b") @@ ("C" :> "c") @@ ("D" :> "d") @@
    ("E" :> "e") @@ ("F" :> "f") @@ ("G" :> "g") @@ ("H" :> "h") @@
    ("I" :> "i") @@ ("J" :> "j") @@ ("K" :> "k") @@ ("L" :> "l") @@
    ("M" :> "m") @@ ("N" :> "n") @@ ("O" :> "o") @@ ("P" :> "p") @@
    ("Q" :> "q") @@ ("R" :> "r") @@ ("S" :> "s") @@ ("T" :> "t") @@
    ("U" :> "u") @@ ("V" :> "v") @@ ("W" :> "w") @@ ("X" :> "x") @@
    ("Y" :> "y") @@ ("Z" :> "z")

\* String.prototype.toLowerCase on one character
LowerChar(c) == IF c \in DOMAIN LowerOf THEN LowerOf[c] ELSE c

\* String.prototype.toLowerCase
ToLowerCase(str) == [k \in 1..Len(str) |-> LowerChar(str[k])]

\* String.prototype.includes
StrIncludes(str, part) ==
    \E o \in 0..(Len(str) - Len(part)) : SubSeq(str, o + 1, o + Len(part)) = part

\* Array.prototype.includes on an optional array (list?.includes(x))
ListIncludes(list, x) ==
    /\ list.has
    /\ \E k \in 1..Len(list.v) : list.v[k] = x

RECURSIVE JSONEscape(_)
\* JSON.stringify of the characters of a string value: quotes are escaped
JSONEscape(str) ==
    IF str = <<>> THEN <<>>
    ELSE (IF Head(str) = "\"" THEN <<"\\", "\"">> ELSE <<Head(str)>>)
         \o JSONEscape(Tail(str))

\* JSON.stringify(metadata): undefined-valued keys are left out
JSONStringify(metadata) ==
    <<"{">>
    \o (IF metadata.tool.has
          THEN <<"\"", "t", "o", "o", "l", "\"", ":", "\"">>
               \o JSONEscape(metadata.tool.v) \o <<"\"", ",">>
          ELSE <<>>)
    \o <<"\"", "c", "o", "m", "m", "a", "n", "d", "\"", ":", "\"">>
    \o JSONEscape(metadata.command) \o <<"\"", "}">>

\* (input.metadata?.tool as string) ?? input.type
ToolNameOf(input) ==
    IF input.metadata.tool.has THEN input.metadata.tool.v ELSE input.type

\* isToolDenied, mutated: deny lists compared case-insensitively
IsToolDeniedAnyCase(toolName, role, policy) ==
    LET has(list) == /\ list.has
                     /\ \E k \in 1..Len(list.v) :
                           ToLowerCase(list.v[k]) = ToLowerCase(toolName)
    IN  IF has(policy.deny_tools)
          THEN [text |-> "is denied by policy", tool |-> toolName]
        ELSE IF role = "viewer" /\ has(policy.viewer_deny_tools)
          THEN [text |-> "is denied for viewers", tool |-> toolName]
        ELSE IF role = "employee" /\ has(policy.employee_deny_tools)
          THEN [text |-> "is denied for employees", tool |-> toolName]
        ELSE NoReason

\* isToolDenied(toolName, role, policy)
IsToolDenied(toolName, role, policy) ==
    IF ListIncludes(policy.deny_tools, toolName)
      THEN [text |-> "is denied by policy", tool |-> toolName]
    ELSE IF role = "viewer" /\ ListIncludes(policy.viewer_deny_tools, toolName)
      THEN [text |-> "is denied for viewers", tool |-> toolName]
    ELSE IF role = "employee" /\ ListIncludes(policy.employee_deny_tools, toolName)
      THEN [text |-> "is denied for employees", tool |-> toolName]
    ELSE NoReason

\* containsDeniedPattern(metadata, policy)
ContainsDeniedPattern(metadata, policy) ==
    IF ~policy.deny_patterns.has \/ Len(policy.deny_patterns.v) = 0
      THEN NoReason
    ELSE
      LET input == ToLowerCase(JSONStringify(metadata))
          hits == {k \in 1..Len(policy.deny_patterns.v) :
                     StrIncludes(input, ToLowerCase(policy.deny_patterns.v[k]))}
      IN  IF hits = {} THEN NoReason
          ELSE [text |-> "Input contains denied pattern",
                pattern |-> policy.deny_patterns.v[CHOOSE k \in hits :
                                                     \A h \in hits : k <= h]]

\* "permission.ask", mutated: the admin auto-approval moved before the
\* approval-required check
AskOutcomeAdminFirst(op, input, policy) ==
    LET user == Current(op).value
        toolName == ToolNameOf(input)
        role == IF user = Undefined THEN "viewer" ELSE user.role
        denyReason == IsToolDenied(toolName, role, policy)
        patternReason == ContainsDeniedPattern(input.metadata, policy)
    IN  IF user # Undefined /\ user.role = "viewer"
           /\ ~Can(op, "tool.execute").value
          THEN [status |-> "deny", reason |-> [text |-> "cannot execute tools"]]
        ELSE IF denyReason # NoReason
          THEN [status |-> "deny", reason |-> denyReason]
        ELSE IF patternReason # NoReason
          THEN [status |-> "deny", reason |-> patternReason]
        ELSE IF user # Undefined /\ user.role = "admin"
          THEN [status |-> "allow", reason |-> NoReason]
        ELSE [status |-> "unset", reason |-> NoReason]

\* "permission.ask"(input, output): the status the hook assigns to
\* output.status ("unset" when it returns without assigning) and the reason
\* it hands to auditDeny
AskOutcome(op, input, policy) ==
    LET user == Current(op).value
        toolName == ToolNameOf(input)
        role == IF user = Undefined THEN "viewer" ELSE user.role
        denyReason == IsToolDenied(toolName, role, policy)
        patternReason == ContainsDeniedPattern(input.metadata, policy)
    IN  IF user # Undefined /\ user.role = "viewer"
           /\ ~Can(op, "tool.execute").value
          THEN [status |-> "deny", reason |-> [text |-> "cannot execute tools"]]
        ELSE IF denyReason # NoReason
          THEN [status |-> "deny", reason |-> denyReason]
        ELSE IF patternReason # NoReason
          THEN [status |-> "deny", reason |-> patternReason]
        ELSE IF ListIncludes(policy.require_approval_tools, toolName)
          THEN [status |-> "unset", reason |-> NoReason]
        ELSE IF user # Undefined /\ user.role = "admin"
          THEN [status |-> "allow", reason |-> NoReason]
        ELSE [status |-> "unset", reason |-> NoReason]

\* the entry auditDeny(input, user, reason) passes to Audit.record
AuditDenyEntry(input, user, reason) ==
    [sessionID |-> input.sessionID,
     userID |-> user.id,
     action |-> "policy.denied",
     resourceType |-> "tool",
     tool |-> ToolNameOf(input),
     decision |-> "deny",
     metadata |-> [reason |-> reason, role |-> user.role,
                   permissionType |-> input.type]]

\* Audit.record(entry), mutated: the row is inserted twice
AuditRecordTwice(entry, stored) ==
    audit' = IF stored THEN audit \o <<entry, entry>> ELSE audit

\* Audit.record(entry): the row is inserted, or the insert throws and the
\* failure is caught and logged
AuditRecord(entry, stored) ==
    audit' = IF stored THEN Append(audit, entry) ELSE audit

\* where the audit write fails: nowhere, in db.insert(...).run(), or in
\* Bus.publish
Faults == {"none", "insert", "publish"}

NoAuditRun == [called |-> FALSE]

\* Audit.record, mutated: the caught error is thrown on to the caller
RecordRethrows(fault) ==
    [stored |-> fault # "insert",
     published |-> fault = "none",
     raised |-> fault # "none",
     logged |-> IF fault = "none" THEN <<>>
                ELSE <<"failed to write audit log">>]

\* Audit.record: try { insert; publish } catch { log.error }
Record(fault) ==
    [stored |-> fault # "insert",
     published |-> fault = "none",
     raised |-> FALSE,
     logged |-> IF fault = "none" THEN <<>>
                ELSE <<"failed to write audit log">>]

\* auditDeny: try { await Audit.record(...) } catch { log.error }
AuditDeny(fault) ==
    LET r == Record(fault)
    IN  [called |-> TRUE,
         fault |-> fault,
         stored |-> r.stored,
         published |-> r.published,
         recordRaised |-> r.raised,
         raised |-> FALSE,
         logged |-> IF r.raised
                      THEN r.logged \o <<"failed to audit policy denial">>
                      ELSE r.logged]

PolicyIdle ==
    /\ policyEnv = [parsed |-> FALSE]
    /\ req = [sessionID |-> "ses_1", type |-> S_read,
              metadata |-> [tool |-> None, command |-> S_ls]]
    /\ ppc = "idle"
    /\ out = [status |-> "ask"]
    /\ execOut = [policyDenied |-> FALSE]
    /\ audit = <<>>
    /\ auditRun = NoAuditRun

\* a request arrives in an operation that runs with or without a principal
PolicyInit ==
    /\ policyEnv \in PolicyEnvs
    /\ req \in Requests
    /\ ctxStack \in {[op \in Ops |-> IF op = 1 THEN st ELSE <<>>] :
                       st \in {<<>>} \cup {<<u>> : u \in Users}}
    /\ lastCan = NoCan
    /\ lastAssert = NoAssert
    /\ lastCurrent = NoCurrent
    /\ ppc = "idle"
    /\ out = [status |-> "ask"]
    /\ execOut = [policyDenied |-> FALSE]
    /\ audit = <<>>
    /\ auditRun = NoAuditRun

\* the "permission.ask" hook runs for the request
PermissionAsk ==
    /\ ppc = "idle"
    /\ LET o == AskOutcome(1, req, GetPolicy)
       IN  IF o.status = "deny"
             THEN \E fault \in Faults :
                    LET d == AuditDeny(fault)
                    IN  /\ AuditRecord(AuditDenyEntry(req, Current(1).value,
                                                      o.reason), d.stored)
                        /\ auditRun' = d
                        \* output.status = "deny" follows the awaited
                        \* auditDeny and is skipped when that rejects
                        /\ out' = IF d.raised THEN out
                                  ELSE [status |-> "deny"]
             ELSE /\ audit' = audit
                  /\ auditRun' = auditRun
                  /\ out' = IF o.status = "unset" THEN out
                            ELSE [status |-> o.status]
    /\ ppc' = "asked"
    /\ UNCHANGED <<policyEnv, req, execOut, rbacVars>>
    /\ UNCHANGED <<batchVars, govVars>>

\* "tool.execute.before", mutated: without a principal the role is employee
ToolExecuteBeforeAsEmployee ==
    /\ ppc = "asked"
    /\ out.status # "deny"
    /\ LET user == Current(1).value
           role == IF user = Undefined THEN "employee" ELSE user.role
           denyReason == IsToolDenied(ToolNameOf(req), role, GetPolicy)
       IN  execOut' = IF denyReason # NoReason
                        THEN [policyDenied |-> TRUE, policyReason |-> denyReason]
                        ELSE execOut
    /\ ppc' = "executed"
    /\ UNCHANGED <<policyEnv, req, out, audit, auditRun, rbacVars>>
    /\ UNCHANGED <<batchVars, govVars>>

\* "tool.execute.before", mutated: a tool the ask phase allowed is not
\* looked up again
ToolExecuteBeforeTrustsAsk ==
    /\ ppc = "asked"
    /\ out.status # "deny"
    /\ LET user == Current(1).value
           role == IF user = Undefined THEN "viewer" ELSE user.role
           denyReason == IsToolDenied(ToolNameOf(req), role, GetPolicy)
       IN  execOut' = IF denyReason # NoReason /\ out.status # "allow"
                        THEN [policyDenied |-> TRUE, policyReason |-> denyReason]
                        ELSE execOut
    /\ ppc' = "executed"
    /\ UNCHANGED <<policyEnv, req, out, audit, auditRun, rbacVars>>
    /\ UNCHANGED <<batchVars, govVars>>

\* the "tool.execute.before" hook runs for the tool of the request
ToolExecuteBefore ==
    /\ ppc = "asked"
    /\ out.status # "deny"
    /\ LET user == Current(1).value
           role == IF user = Undefined THEN "viewer" ELSE user.role
           denyReason == IsToolDenied(ToolNameOf(req), role, GetPolicy)
       IN  execOut' = IF denyReason # NoReason
                        THEN [policyDenied |-> TRUE, policyReason |-> denyReason]
                        ELSE execOut
    /\ ppc' = "executed"
    /\ UNCHANGED <<policyEnv, req, out, audit, auditRun, rbacVars>>
    /\ UNCHANGED <<batchVars, govVars>>

PolicyNext ==
    \/ PermissionAsk
    \/ ToolExecuteBefore

\* what OPENCODE_POLICY can be changed to: unset, or the policy with other
\* deny lists
EditedEnvs ==
    {[parsed |-> FALSE]} \cup
    {[parsed |-> TRUE, policy |-> c] :
        c \in {x \in PolicyConfigs :
                  /\ x.deny_patterns = GetPolicy.deny_patterns
                  /\ x.require_approval_tools = GetPolicy.require_approval_tools}}

\* process.env["OPENCODE_POLICY"] is changed before the ask phase or
\* between the ask phase and the execute phase
PolicyEdit ==
    /\ ppc \in {"idle", "asked"}
    /\ policyEnv' \in EditedEnvs \ {policyEnv}
    /\ UNCHANGED <<req, ppc, out, execOut, audit, auditRun, rbacVars>>
    /\ UNCHANGED <<batchVars, govVars>>

PolicyEditNext ==
    \/ PolicyNext
    \/ PolicyEdit


\* ------------------------------------------------------------------------
\* Audit store (Audit.record, Audit.list, Audit.startRetention) and
\* Retention.sweep. The clock counts days.
\* ------------------------------------------------------------------------

\* Latest of the early instants the clock visits.
MaxEarly == 1

\* Most audit entries recorded in one run.
MaxRows == 2

\* 24 * 60 * 60 * 1000 ms, the unit of the clock
DAY == 1

\* const DEFAULT_RETENTION_DAYS = 90
DEFAULT_RETENTION_DAYS == 90

\* parseInt(process.env["OPENCODE_RETENTION_SESSIONS_DAYS"] ?? "90", 10) || 90
DefaultSessionDays == 90

\* parseInt(process.env["OPENCODE_RETENTION_AUDIT_DAYS"] ?? "365", 10) || 365
DefaultAuditDays == 365

\* .limit(input?.limit ?? 100)
DefaultLimit == 100

S_0 == <<"0">>

S_1 == <<"1">>

S_90 == <<"9", "0">>

S_365 == <<"3", "6", "5">>

S_notanumber == <<"n", "o", "t", "a", "n", "u", "m", "b", "e", "r">>

\* instants the clock visits: the first days, and the day each default
\* retention window ends and the day after
Instants ==
    (0 .. MaxEarly) \cup
    {w + k : w \in {DefaultSessionDays, DefaultAuditDays}, k \in {0, 1}}

SessionIds == {"ses_1", "ses_2"}

\* the environment and the argument Audit.startRetention was called with
RetentionConfs ==
    {[sessions |-> None, audit |-> None,
      retentionDays |-> DEFAULT_RETENTION_DAYS],
     [sessions |-> Some(S_0), audit |-> Some(S_0), retentionDays |-> 1],
     [sessions |-> Some(S_1), audit |-> Some(S_1), retentionDays |-> 1],
     [sessions |-> Some(S_notanumber), audit |-> Some(S_1),
      retentionDays |-> DEFAULT_RETENTION_DAYS]}

\* arguments of Audit.record
RecordInputs ==
    {[sessionID |-> Some("ses_1"), userID |-> Some("emp"),
      action |-> "tool.execute"],
     [sessionID |-> Some("ses_2"), userID |-> Some("adm"),
      action |-> "policy.denied"],
     [sessionID |-> None, userID |-> None, action |-> "session.created"]}

NoFilter ==
    [sessionID |-> None, userID |-> None, action |-> None, start |-> None,
     end |-> None, limit |-> None]

\* arguments of Audit.list: no filter, each filter alone, and all together
ListInputs ==
    {NoFilter}
    \cup {[NoFilter EXCEPT !.sessionID = Some(v)] : v \in {"ses_1", ""}}
    \cup {[NoFilter EXCEPT !.userID = Some("emp")]}
    \cup {[NoFilter EXCEPT !.action = Some("policy.denied")]}
    \cup {[NoFilter EXCEPT !.start = Some(v)] : v \in {0, 1}}
    \cup {[NoFilter EXCEPT !.end = Some(v)] : v \in {0, 1}}
    \cup {[NoFilter EXCEPT !.limit = Some(v)] : v \in {1, DefaultLimit + 1}}
    \cup {[sessionID |-> Some("ses_1"), userID |-> Some("emp"),
           action |-> Some("tool.execute"), start |-> Some(1),
           end |-> Some(1), limit |-> Some(1)]}

NoList == [called |-> FALSE]

NoSweep == [called |-> FALSE]

Digit ==
    ("0" :> 0) @@ ("1" :> 1) @@ ("2" :> 2) @@ ("3" :> 3) @@ ("4" :> 4) @@
    ("5" :> 5) @@ ("6" :> 6) @@ ("7" :> 7) @@ ("8" :> 8) @@ ("9" :> 9)

RECURSIVE ParseDigits(_, _)
\* the decimal digits parseInt consumes, up to the first other character
ParseDigits(str, acc) ==
    IF str = <<>> \/ Head(str) \notin DOMAIN Digit THEN acc
    ELSE ParseDigits(Tail(str), acc * 10 + Digit[Head(str)])

\* parseInt(str, 10) of an unsigned string: None stands for NaN
ParseInt(str) ==
    IF str = <<>> \/ Head(str) \notin DOMAIN Digit THEN None
    ELSE Some(ParseDigits(str, 0))

\* parsed || fallback: NaN and 0 are falsy
OrDefault(parsed, fallback) ==
    IF parsed = None \/ parsed.v = 0 THEN fallback ELSE parsed.v

\* env ?? fallback
EnvOr(value, fallback) == IF value = None THEN fallback ELSE value.v

\* Retention.getConfig
GetConfig(conf) ==
    [sessionDays |-> OrDefault(ParseInt(EnvOr(conf.sessions, S_90)),
                               DefaultSessionDays),
     auditDays |-> OrDefault(ParseInt(EnvOr(conf.audit, S_365)),
                             DefaultAuditDays)]

\* session_id ... references(SessionTable.id, { onDelete: "set null" })
OnDeleteSetNull(rows, removed) ==
    {IF r.session_id # None /\ r.session_id.v \in removed
       THEN [r EXCEPT !.session_id = None] ELSE r : r \in rows}

\* the conditions Audit.list pushes for the input, applied to one row: a
\* condition is pushed for an argument that is truthy (given, not "", not 0)
Matches(row, input) ==
    /\ (input.sessionID # None /\ input.sessionID.v # "")
          => row.session_id = input.sessionID
    /\ (input.userID # None /\ input.userID.v # "")
          => row.user_id = input.userID
    /\ (input.action # None /\ input.action.v # "")
          => row.action = input.action.v
    /\ (input.start # None /\ input.start.v # 0)
          => row.time_created >= input.start.v
    /\ (input.end # None /\ input.end.v # 0)
          => row.time_created <= input.end.v

\* fromRow(row)
FromRow(row) ==
    [id |-> row.id, sessionID |-> row.session_id, userID |-> row.user_id,
     action |-> row.action, created |-> row.time_created]

\* the orders .orderBy(desc(time_created)) may return the rows in
Orderings(rows) ==
    {f \in [1 .. Cardinality(rows) -> rows] :
        /\ \A i, j \in DOMAIN f : i # j => f[i] # f[j]
        /\ \A i, j \in DOMAIN f :
              i < j => f[i].time_created >= f[j].time_created}

\* input?.limit ?? 100
LimitOf(input) == IF input.limit = None THEN DefaultLimit ELSE input.limit.v

\* the first limit elements of seq
Take(seq, limit) ==
    SubSeq(seq, 1, IF limit < Len(seq) THEN limit ELSE Len(seq))

\* the audit purge of Retention.sweep: lt(time_created, cutoff)
PurgeBefore(rows, cutoff) == {r \in rows : ~(r.time_created < cutoff)}

\* the purge of Audit.startRetention: lte(time_created, cutoff)
PurgeUpTo(rows, cutoff) == {r \in rows : ~(r.time_created <= cutoff)}

StoreIdle ==
    /\ now = 0
    /\ auditLogTable = {}
    /\ sessionTable = {}
    /\ nextId = 1
    /\ retentionConf = [sessions |-> None, audit |-> None,
                        retentionDays |-> DEFAULT_RETENTION_DAYS]
    /\ lastList = NoList
    /\ lastSweep = NoSweep

\* two sessions exist, no audit entry has been written
StoreInit ==
    /\ now = 0
    /\ auditLogTable = {}
    /\ sessionTable = {[id |-> s, time_created |-> 0] : s \in SessionIds}
    /\ nextId = 1
    /\ retentionConf \in RetentionConfs
    /\ lastList = NoList
    /\ lastSweep = NoSweep

\* time passes
Tick ==
    /\ \E t \in Instants : t > now /\ now' = t
    /\ lastList' = NoList
    /\ lastSweep' = NoSweep
    /\ UNCHANGED <<auditLogTable, sessionTable, nextId, retentionConf>>
    /\ UNCHANGED <<batchVars, rbacVars, policyVars, redactVars, budgetVars, truncVars, moreVars>>

\* Audit.record(input): the insert fails, and is caught, when the session
\* the row references does not exist
RecordCall(input) ==
    /\ nextId <= MaxRows
    /\ LET row == [id |-> nextId, session_id |-> input.sessionID,
                   user_id |-> input.userID, action |-> input.action,
                   time_created |-> now]
           referenced == input.sessionID = None
                         \/ \E ses \in sessionTable : ses.id = input.sessionID.v
       IN  auditLogTable' = IF referenced THEN auditLogTable \cup {row}
                            ELSE auditLogTable
    /\ nextId' = nextId + 1
    /\ lastList' = NoList
    /\ lastSweep' = NoSweep
    /\ UNCHANGED <<now, sessionTable, retentionConf>>
    /\ UNCHANGED <<batchVars, rbacVars, policyVars, redactVars, budgetVars, truncVars, moreVars>>

\* Audit.list(input)
ListCall(input) ==
    /\ \E ordered \in Orderings({r \in auditLogTable : Matches(r, input)}) :
          lastList' = [called |-> TRUE, input |-> input,
                       limit |-> LimitOf(input),
                       entries |-> [i \in DOMAIN Take(ordered, LimitOf(input))
                                      |-> FromRow(ordered[i])]]
    /\ lastSweep' = NoSweep
    /\ UNCHANGED <<now, auditLogTable, sessionTable, nextId, retentionConf>>
    /\ UNCHANGED <<batchVars, rbacVars, policyVars, redactVars, budgetVars, truncVars, moreVars>>

\* Session.remove(id): the row leaves the session table
SessionRemove(id) ==
    /\ \E ses \in sessionTable : ses.id = id
    /\ sessionTable' = {ses \in sessionTable : ses.id # id}
    /\ auditLogTable' = OnDeleteSetNull(auditLogTable, {id})
    /\ lastList' = NoList
    /\ lastSweep' = NoSweep
    /\ UNCHANGED <<now, nextId, retentionConf>>
    /\ UNCHANGED <<batchVars, rbacVars, policyVars, redactVars, budgetVars, truncVars, moreVars>>

\* the daily task Audit.startRetention(retentionDays) registered runs
AuditRetentionRun ==
    /\ auditLogTable' =
          PurgeUpTo(auditLogTable, now - retentionConf.retentionDays * DAY)
    /\ lastList' = NoList
    /\ lastSweep' = NoSweep
    /\ UNCHANGED <<now, sessionTable, nextId, retentionConf>>
    /\ UNCHANGED <<batchVars, rbacVars, policyVars, redactVars, budgetVars, truncVars, moreVars>>

\* Retention.sweep(): Session.remove may fail for any of the old sessions
RetentionSweep ==
    /\ LET config == GetConfig(retentionConf)
           old == IF config.sessionDays > 0
                    THEN {ses.id : ses \in
                            {x \in sessionTable :
                               x.time_created < now - config.sessionDays * DAY}}
                    ELSE {}
       IN  \E failed \in SUBSET old :
              LET removed == old \ failed
                  rows == OnDeleteSetNull(auditLogTable, removed)
              IN  /\ sessionTable' =
                        {ses \in sessionTable : ses.id \notin removed}
                  /\ auditLogTable' =
                        IF config.auditDays > 0
                          THEN PurgeBefore(rows, now - config.auditDays * DAY)
                          ELSE rows
                  /\ lastSweep' = [called |-> TRUE,
                                   sessions |-> Cardinality(removed),
                                   auditLogs |-> 0]
    /\ lastList' = NoList
    /\ UNCHANGED <<now, nextId, retentionConf>>
    /\ UNCHANGED <<batchVars, rbacVars, policyVars, redactVars, budgetVars, truncVars, moreVars>>

StoreNext ==
    \/ Tick
    \/ \E input \in RecordInputs : RecordCall(input)
    \/ \E input \in ListInputs : ListCall(input)
    \/ \E id \in SessionIds : SessionRemove(id)
    \/ AuditRetentionRun
    \/ RetentionSweep

\* ------------------------------------------------------------------------
\* Secret redaction (redactSecrets). Text is a tuple of one-character
\* strings; a regex is the sequence of its atoms.
\* ------------------------------------------------------------------------

\* Most lines in a scanned text.
MaxLines == 2

\* Scans applied one after the other to the same text.
MaxScans == 2

UpperChars == {"A", "B", "C", "D", "E", "F", "G", "H", "I", "J", "K", "L",
    "M", "N", "O", "P", "Q", "R", "S", "T", "U", "V", "W", "X", "Y", "Z"}

LowerChars == {"a", "b", "c", "d", "e", "f", "g", "h", "i", "j", "k", "l",
    "m", "n", "o", "p", "q", "r", "s", "t", "u", "v", "w", "x", "y", "z"}

DigitChars == DOMAIN Digit

\* \w
WordChars == UpperChars \cup LowerChars \cup DigitChars \cup {"_"}

\* \s
SpaceChars == {" ", "\n"}

\* every character that occurs in a scanned text or in a placeholder
Alphabet ==
    WordChars \cup SpaceChars \cup
    {"=", "'", "\"", "[", "]", ":", "-", ".", "~", "+", "/"}

\* what . matches
DotChars == Alphabet \ {"\n"}

\* a quantified character class; cap marks the atoms of capture group 1
Cls(set, min, max, lazy, cap) ==
    [t |-> "cls", set |-> set, min |-> min, max |-> max, lazy |-> lazy,
     cap |-> cap]

\* an alternation of literals, tried in order; ci: compared ignoring case
Words(words, ci) == [t |-> "words", words |-> words, ci |-> ci]

\* ^ under the m flag
Bol == [t |-> "bol"]

\* $ under the m flag
Eol == [t |-> "eol"]

\* \b
WordBoundary == [t |-> "wb"]

\* stands for no upper limit on a repetition (+ and *): longer than any
\* scanned text
Unbounded == 255

\* const SECRET_PATTERNS: the matchers for an AWS access key, a bearer token
\* and an .env assignment, in their order in the list
SECRET_PATTERNS ==
    << [name |-> <<"A", "W", "S", " ", "A", "c", "c", "e", "s", "s", " ", "K", "e", "y">>,
        \* /\b(AKIA[0-9A-Z]{16})\b/g
        atoms |-> << WordBoundary,
                     Words(<< <<"A", "K", "I", "A">> >>, FALSE),
                     Cls(DigitChars \cup UpperChars, 16, 16, FALSE, FALSE),
                     WordBoundary >>,
        group |-> FALSE],
       [name |-> <<"B", "e", "a", "r", "e", "r", " ", "T", "o", "k", "e", "n">>,
        \* /Bearer\s+([A-Za-z0-9\-._~+/]+=*)/gi
        atoms |-> << Words(<< <<"b", "e", "a", "r", "e", "r">> >>, TRUE),
                     Cls(SpaceChars, 1, Unbounded, FALSE, FALSE),
                     Cls(UpperChars \cup LowerChars \cup DigitChars
                           \cup {"-", ".", "_", "~", "+", "/"},
                         1, Unbounded, FALSE, TRUE),
                     Cls({"="}, 0, Unbounded, FALSE, TRUE) >>,
        group |-> TRUE],
       [name |-> <<"E", "n", "v", " ", "S", "e", "c", "r", "e", "t">>,
        \* /^(?:SECRET|PASSWORD|TOKEN|PRIVATE_KEY|API_KEY|DATABASE_URL|
        \*    DB_PASSWORD|JWT_SECRET|ENCRYPTION_KEY)[_A-Z0-9]*\s*=\s*
        \*    ['"]?(.+?)['"]?$/gim
        atoms |-> << Bol,
                     Words(<< <<"s", "e", "c", "r", "e", "t">>,
                              <<"p", "a", "s", "s", "w", "o", "r", "d">>,
                              <<"t", "o", "k", "e", "n">>,
                              <<"p", "r", "i", "v", "a", "t", "e", "_", "k", "e", "y">>,
                              <<"a", "p", "i", "_", "k", "e", "y">>,
                              <<"d", "a", "t", "a", "b", "a", "s", "e", "_", "u", "r", "l">>,
                              <<"d", "b", "_", "p", "a", "s", "s", "w", "o", "r", "d">>,
                              <<"j", "w", "t", "_", "s", "e", "c", "r", "e", "t">>,
                              <<"e", "n", "c", "r", "y", "p", "t", "i", "o", "n", "_", "k", "e", "y">> >>,
                           TRUE),
                     Cls(WordChars, 0, Unbounded, FALSE, FALSE),
                     Cls(SpaceChars, 0, Unbounded, FALSE, FALSE),
                     Cls({"="}, 1, 1, FALSE, FALSE),
                     Cls(SpaceChars, 0, Unbounded, FALSE, FALSE),
                     Cls({"'", "\""}, 0, 1, FALSE, FALSE),
                     Cls(DotChars, 1, Unbounded, TRUE, TRUE),
                     Cls({"'", "\""}, 0, 1, FALSE, FALSE),
                     Eol >>,
        group |-> TRUE] >>

\* `[REDACTED:${pattern.name}]`
Placeholder(name) ==
    <<"[", "R", "E", "D", "A", "C", "T", "E", "D", ":">> \o name \o <<"]">>

NoMatch == [ok |-> FALSE]

\* the literal word stands in text at pos
WordAt(text, pos, word, ci) ==
    /\ pos + Len(word) - 1 <= Len(text)
    /\ \A i \in 1 .. Len(word) :
          IF ci THEN LowerChar(text[pos + i - 1]) = word[i]
          ELSE text[pos + i - 1] = word[i]

\* how many characters of the set stand in text from pos on, at most max
RunLength(text, pos, set, max) ==
    LET most == IF Len(text) - pos + 1 < max THEN Len(text) - pos + 1 ELSE max
    IN  CHOOSE n \in 0 .. most :
          /\ \A i \in pos .. pos + n - 1 : text[i] \in set
          /\ n = most \/ text[pos + n] \notin set

IsWordAt(text, pos) ==
    pos >= 1 /\ pos <= Len(text) /\ text[pos] \in WordChars

RECURSIVE MatchFrom(_, _, _, _, _)

\* the capture span once atom k has taken n characters at pos
Captured(atom, pos, cap, n) ==
    IF atom.cap THEN [gs |-> IF cap.gs = 0 THEN pos ELSE cap.gs, ge |-> pos + n]
    ELSE cap

\* the alternatives of atom k in order, first success wins
TryWords(atoms, k, text, pos, cap) ==
    LET fits == {w \in DOMAIN atoms[k].words :
                   /\ WordAt(text, pos, atoms[k].words[w], atoms[k].ci)
                   /\ MatchFrom(atoms, k + 1, text,
                                pos + Len(atoms[k].words[w]), cap).ok}
    IN  IF fits = {} THEN NoMatch
        ELSE LET w == CHOOSE x \in fits : \A y \in fits : x <= y
             IN  MatchFrom(atoms, k + 1, text,
                           pos + Len(atoms[k].words[w]), cap)

\* atom k repeated lo .. hi times: the longest repetition (greedy) or the
\* shortest (lazy) after which the rest of the regex matches
TryCounts(atoms, k, text, pos, cap, lo, hi) ==
    LET fits == {n \in lo .. hi :
                   MatchFrom(atoms, k + 1, text, pos + n,
                             Captured(atoms[k], pos, cap, n)).ok}
    IN  IF fits = {} THEN NoMatch
        ELSE LET n == IF atoms[k].lazy
                        THEN CHOOSE x \in fits : \A y \in fits : x <= y
                        ELSE CHOOSE x \in fits : \A y \in fits : x >= y
             IN  MatchFrom(atoms, k + 1, text, pos + n,
                           Captured(atoms[k], pos, cap, n))

\* the atoms from the k-th on match text at pos (backtracking as the regex
\* engine does): the end of the match and the span of capture group 1
MatchFrom(atoms, k, text, pos, cap) ==
    IF k > Len(atoms)
      THEN [ok |-> TRUE, end |-> pos, gs |-> cap.gs, ge |-> cap.ge]
    ELSE IF atoms[k].t = "bol"
      THEN IF pos = 1 \/ text[pos - 1] = "\n"
             THEN MatchFrom(atoms, k + 1, text, pos, cap) ELSE NoMatch
    ELSE IF atoms[k].t = "eol"
      THEN IF pos = Len(text) + 1 \/ text[pos] = "\n"
             THEN MatchFrom(atoms, k + 1, text, pos, cap) ELSE NoMatch
    ELSE IF atoms[k].t = "wb"
      THEN IF IsWordAt(text, pos - 1) # IsWordAt(text, pos)
             THEN MatchFrom(atoms, k + 1, text, pos, cap) ELSE NoMatch
    ELSE IF atoms[k].t = "words"
      THEN TryWords(atoms, k, text, pos, cap)
    ELSE TryCounts(atoms, k, text, pos, cap, atoms[k].min,
                   RunLength(text, pos, atoms[k].set, atoms[k].max))

RECURSIVE FindMatches(_, _, _)
\* the matches a global regex finds in text from pos on, left to right
FindMatches(text, atoms, pos) ==
    LET starts == {p \in pos .. Len(text) :
                     MatchFrom(atoms, 1, text, p, [gs |-> 0, ge |-> 0]).ok}
    IN  IF starts = {} THEN <<>>
        ELSE LET p == CHOOSE x \in starts : \A y \in starts : x <= y
                 r == MatchFrom(atoms, 1, text, p, [gs |-> 0, ge |-> 0])
             IN  <<[start |-> p, end |-> r.end, gs |-> r.gs, ge |-> r.ge]>>
                   \o FindMatches(text, atoms, r.end)

\* str.indexOf(part) + 1: the first position at which part occurs, 0 if none
IndexOf(str, part) ==
    LET at == {p \in 1 .. Len(str) - Len(part) + 1 :
                 SubSeq(str, p, p + Len(part) - 1) = part}
    IN  IF at = {} THEN 0 ELSE CHOOSE x \in at : \A y \in at : x <= y

\* str.replace(part, by) with a string pattern: the first occurrence
ReplaceFirst(str, part, by) ==
    LET at == IndexOf(str, part)
    IN  IF at = 0 THEN str
        ELSE SubSeq(str, 1, at - 1) \o by
               \o SubSeq(str, at + Len(part), Len(str))

\* the replacer callback of redactSecrets for one match
Replacement(pattern, text, m) ==
    IF pattern.group /\ m.ge > m.gs
      THEN ReplaceFirst(SubSeq(text, m.start, m.end - 1),
                        SubSeq(text, m.gs, m.ge - 1),
                        Placeholder(pattern.name))
      ELSE Placeholder(pattern.name)

RECURSIVE Splice(_, _, _, _, _)
\* text with the i-th and later matches replaced, copied from pos on
Splice(pattern, text, matches, i, pos) ==
    IF i > Len(matches) THEN SubSeq(text, pos, Len(text))
    ELSE SubSeq(text, pos, matches[i].start - 1)
           \o Replacement(pattern, text, matches[i])
           \o Splice(pattern, text, matches, i + 1, matches[i].end)

\* result.replace(pattern.regex, callback) and the findings it pushes
ReplaceAll(pattern, text) ==
    LET matches == FindMatches(text, pattern.atoms, 1)
    IN  [before |-> text,
         after |-> Splice(pattern, text, matches, 1, 1),
         matches |-> matches,
         findings |-> [i \in DOMAIN matches |->
                         [type |-> pattern.name,
                          offset |-> matches[i].start - 1]]]

RECURSIVE Passes(_, _)
\* the loop over SECRET_PATTERNS from the i-th pattern on
Passes(text, i) ==
    IF i > Len(SECRET_PATTERNS) THEN <<>>
    ELSE LET pass == ReplaceAll(SECRET_PATTERNS[i], text)
         IN  <<pass>> \o Passes(pass.after, i + 1)

RECURSIVE Findings(_, _)
Findings(passes, i) ==
    IF i > Len(passes) THEN <<>>
    ELSE passes[i].findings \o Findings(passes, i + 1)

\* redactSecrets(text); passes keeps `result` before and after each pattern
RedactSecrets(text) ==
    LET passes == Passes(text, 1)
    IN  [redacted |-> passes[Len(passes)].after,
         findings |-> Findings(passes, 1),
         passes |-> passes]

\* lines of tool output
Lines ==
    {<<"P", "A", "S", "S", "W", "O", "R", "D", "=", "h", "u", "n", "t", "e", "r", "2">>,
     <<"T", "O", "K", "E", "N", "=", "O", "K">>,
     <<"t", "o", "k", "e", "n", " ", "=", " ", "'", "x", "'">>,
     <<"B", "e", "a", "r", "e", "r", " ", "a", "b", "c", ".", "d", "=">>,
     <<"A", "K", "I", "A", "I", "O", "S", "F", "O", "D", "N", "N", "7", "E", "X", "A", "M", "P", "L", "E">>,
     <<"l", "s", " ", "-", "l", "a">>}

RECURSIVE JoinLines(_)
\* lines.join("\n")
JoinLines(lines) ==
    IF Len(lines) = 1 THEN lines[1]
    ELSE lines[1] \o <<"\n">> \o JoinLines(Tail(lines))

\* tool outputs of one to MaxLines lines
Texts ==
    {JoinLines(ls) : ls \in UNION {[1 .. n -> Lines] : n \in 1 .. MaxLines}}

RedactIdle ==
    /\ scanText = <<>>
    /\ scans = <<>>

RedactInit ==
    /\ scanText \in Texts
    /\ scans = <<>>

\* redactSecrets is applied to the text, then to its own redacted output
Scan ==
    /\ Len(scans) < MaxScans
    /\ scans' = Append(scans,
                       RedactSecrets(IF scans = <<>> THEN scanText
                                     ELSE scans[Len(scans)].redacted))
    /\ UNCHANGED scanText
    /\ UNCHANGED <<batchVars, rbacVars, policyVars, storeVars, budgetVars, truncVars, moreVars>>

RedactNext == Scan

\* ------------------------------------------------------------------------
\* Budget (rbac/rbac.ts, namespace Budget)
\* ------------------------------------------------------------------------

\* most tool calls recorded on one tracker
MaxCalls == 11

\* the limits of the tracker of the budget tests
TenCalls == 10
FiftyThousandTokens == 50000
SixtySeconds == 60000

\* Limits: every field is optional; 0 is a number a field can hold
LimitsSet ==
    [maxToolCalls : {None, Some(0), Some(TenCalls)},
     maxTokens    : {None, Some(0), Some(FiftyThousandTokens)},
     timeoutMs    : {None, Some(0), Some(SixtySeconds)}]

\* values of totalTokens reached by the recorded amounts
TokenTotals ==
    {0, 1, FiftyThousandTokens - 1, FiftyThousandTokens,
     FiftyThousandTokens + 1}

\* the amounts recorded next: the numbers, above or below 0, that lead to
\* such a total
TokenAmounts(state) ==
    {total - state.totalTokens :
        total \in {x \in TokenTotals : x # state.totalTokens}}

\* values Date.now() takes
ClockInstants ==
    {0, 1, SixtySeconds - 1, SixtySeconds, SixtySeconds + 1}

NoCheck == [called |-> FALSE]

\* Budget.create(limits) at time t
Create(limits, t) ==
    [toolCalls |-> 0, totalTokens |-> 0, startTime |-> t, limits |-> limits]

\* truthiness of an optional number: undefined and 0 are falsy
IsTruthy(limit) == limit.has /\ limit.v # 0

\* Budget.check with every >= turned into >
CheckBeyond(state, t) ==
    LET l == state.limits
        elapsed == t - state.startTime
    IN  IF IsTruthy(l.maxToolCalls) /\ state.toolCalls > l.maxToolCalls.v
          THEN Some([exceeded |-> "Tool call", used |-> state.toolCalls,
                     limit |-> l.maxToolCalls.v])
        ELSE IF IsTruthy(l.maxTokens) /\ state.totalTokens > l.maxTokens.v
          THEN Some([exceeded |-> "Token", used |-> state.totalTokens,
                     limit |-> l.maxTokens.v])
        ELSE IF IsTruthy(l.timeoutMs) /\ elapsed > l.timeoutMs.v
          THEN Some([exceeded |-> "Timeout", used |-> elapsed,
                     limit |-> l.timeoutMs.v])
        ELSE None

\* Budget.check with the elapsed-time ceiling looked at first
CheckTimeoutFirst(state, t) ==
    LET l == state.limits
        elapsed == t - state.startTime
    IN  IF IsTruthy(l.timeoutMs) /\ elapsed >= l.timeoutMs.v
          THEN Some([exceeded |-> "Timeout", used |-> elapsed,
                     limit |-> l.timeoutMs.v])
        ELSE IF IsTruthy(l.maxToolCalls) /\ state.toolCalls >= l.maxToolCalls.v
          THEN Some([exceeded |-> "Tool call", used |-> state.toolCalls,
                     limit |-> l.maxToolCalls.v])
        ELSE IF IsTruthy(l.maxTokens) /\ state.totalTokens >= l.maxTokens.v
          THEN Some([exceeded |-> "Token", used |-> state.totalTokens,
                     limit |-> l.maxTokens.v])
        ELSE None

\* Budget.check with a ceiling of 0 taken as a ceiling
CheckZeroCeiling(state, t) ==
    LET l == state.limits
        elapsed == t - state.startTime
    IN  IF l.maxToolCalls.has /\ state.toolCalls >= l.maxToolCalls.v
          THEN Some([exceeded |-> "Tool call", used |-> state.toolCalls,
                     limit |-> l.maxToolCalls.v])
        ELSE IF l.maxTokens.has /\ state.totalTokens >= l.maxTokens.v
          THEN Some([exceeded |-> "Token", used |-> state.totalTokens,
                     limit |-> l.maxTokens.v])
        ELSE IF l.timeoutMs.has /\ elapsed >= l.timeoutMs.v
          THEN Some([exceeded |-> "Timeout", used |-> elapsed,
                     limit |-> l.timeoutMs.v])
        ELSE None

\* Budget.check(state) at time t: the first violated ceiling, or undefined
Check(state, t) ==
    LET l == state.limits
        elapsed == t - state.startTime
    IN  IF IsTruthy(l.maxToolCalls) /\ state.toolCalls >= l.maxToolCalls.v
          THEN Some([exceeded |-> "Tool call", used |-> state.toolCalls,
                     limit |-> l.maxToolCalls.v])
        ELSE IF IsTruthy(l.maxTokens) /\ state.totalTokens >= l.maxTokens.v
          THEN Some([exceeded |-> "Token", used |-> state.totalTokens,
                     limit |-> l.maxTokens.v])
        ELSE IF IsTruthy(l.timeoutMs) /\ elapsed >= l.timeoutMs.v
          THEN Some([exceeded |-> "Timeout", used |-> elapsed,
                     limit |-> l.timeoutMs.v])
        ELSE None

\* no tracker exists
BudgetIdle ==
    /\ budget = Create([maxToolCalls |-> None, maxTokens |-> None,
                        timeoutMs |-> None], 0)
    /\ clock = 0
    /\ lastCheck = NoCheck

\* a tracker has just been created
BudgetInit ==
    /\ clock \in {0, 1}
    /\ \E limits \in LimitsSet : budget = Create(limits, clock)
    /\ lastCheck = NoCheck

\* Budget.recordToolCall(state)
RecordToolCall ==
    /\ budget.toolCalls < MaxCalls
    /\ budget' = [budget EXCEPT !.toolCalls = @ + 1]
    /\ lastCheck' = NoCheck
    /\ UNCHANGED clock
    /\ UNCHANGED <<batchVars, rbacVars, policyVars, storeVars, redactVars, truncVars, moreVars>>

\* Budget.recordTokens(state, tokens)
RecordTokens(tokens) ==
    /\ budget' = [budget EXCEPT !.totalTokens = @ + tokens]
    /\ lastCheck' = NoCheck
    /\ UNCHANGED clock
    /\ UNCHANGED <<batchVars, rbacVars, policyVars, storeVars, redactVars, truncVars, moreVars>>

\* time passes
ClockAdvance ==
    /\ \E t \in ClockInstants : t > clock /\ clock' = t
    /\ lastCheck' = NoCheck
    /\ UNCHANGED budget
    /\ UNCHANGED <<batchVars, rbacVars, policyVars, storeVars, redactVars, truncVars, moreVars>>

\* Budget.check(state)
CheckCall ==
    /\ lastCheck' = [called |-> TRUE, returned |-> Check(budget, clock)]
    /\ UNCHANGED <<budget, clock>>
    /\ UNCHANGED <<batchVars, rbacVars, policyVars, storeVars, redactVars, truncVars, moreVars>>

\* Budget.summary(state) at time t: the usage and the limits that are set
Summary(state, t) ==
    [toolCalls |-> state.toolCalls,
     totalTokens |-> state.totalTokens,
     elapsedMs |-> t - state.startTime,
     maxToolCalls |-> IF IsTruthy(state.limits.maxToolCalls)
                        THEN state.limits.maxToolCalls ELSE None,
     maxTokens |-> IF IsTruthy(state.limits.maxTokens)
                     THEN state.limits.maxTokens ELSE None,
     timeoutMs |-> IF IsTruthy(state.limits.timeoutMs)
                     THEN state.limits.timeoutMs ELSE None]

\* Budget.summary(state)
SummaryCall ==
    /\ lastCheck' = [called |-> FALSE, summary |-> Summary(budget, clock)]
    /\ UNCHANGED <<budget, clock>>
    /\ UNCHANGED <<batchVars, rbacVars, policyVars, storeVars, redactVars, truncVars, moreVars>>

BudgetNext ==
    \/ RecordToolCall
    \/ \E tokens \in TokenAmounts(budget) : RecordTokens(tokens)
    \/ ClockAdvance
    \/ CheckCall
    \/ SummaryCall

\* ------------------------------------------------------------------------
\* Audit truncate (tool/parallel-task.ts) and the summaries of Audit.record
\* ------------------------------------------------------------------------

\* most rows persisted in one run
MaxSummaryRows == 1

\* function truncate(value: unknown, max = 1024)
DefaultMax == 1024

\* "A".repeat(2000) of the truncation test
LongLength == 2000

\* custom max of the truncation test
CustomMax == 5

\* the character U+2026
Ellipsis == "..."

\* "A".repeat(n)
Repeat(n) == [k \in 1..n |-> "A"]

S_hello == <<"h", "e", "l", "l", "o">>

S_abcdefghij == <<"a", "b", "c", "d", "e", "f", "g", "h", "i", "j">>

S_value == <<"v", "a", "l", "u", "e">>

StringValue(str) == [type |-> "string", str |-> str]

\* the object { key: str }
ObjectValue(str) == [type |-> "object", key |-> str]

\* values handed to truncate: undefined, null, strings around the limits
\* and objects
Values ==
    {[type |-> "undefined"], [type |-> "null"]}
    \cup {StringValue(str) :
            str \in {<<>>, S_hello, S_abcdefghij, S_qr,
                     Repeat(CustomMax), Repeat(CustomMax + 1),
                     Repeat(DefaultMax - 1), Repeat(DefaultMax),
                     Repeat(DefaultMax + 1), Repeat(LongLength)}}
    \cup {ObjectValue(str) : str \in {S_value, S_qr, Repeat(DefaultMax)}}

\* the max argument: left out, or a length
Maxes == {None, Some(0), Some(CustomMax), Some(DefaultMax)}

\* JSON.stringify({ key: str }); a string without quotes is its own escape
Stringify(value) ==
    <<"{", "\"", "k", "e", "y", "\"", ":", "\"">>
    \o (IF "\"" \in {value.key[k] : k \in DOMAIN value.key}
          THEN JSONEscape(value.key) ELSE value.key)
    \o <<"\"", "}">>

\* truncate, mutated: the ellipsis takes the place of the last character
\* kept
TruncateWithin(value, max) ==
    IF value.type \in {"undefined", "null"} THEN None
    ELSE LET str == IF value.type = "string" THEN value.str
                    ELSE Stringify(value)
         IN  Some(IF Len(str) > max /\ max > 0
                    THEN SubSeq(str, 1, max - 1) \o <<Ellipsis>>
                    ELSE str)

\* truncate(value, max)
Truncate(value, max) ==
    IF value.type \in {"undefined", "null"} THEN None
    ELSE LET str == IF value.type = "string" THEN value.str
                    ELSE Stringify(value)
         IN  Some(IF Len(str) > max
                    THEN SubSeq(str, 1, max) \o <<Ellipsis>>
                    ELSE str)

\* the default of the max parameter
MaxOr(max) == IF max.has THEN max.v ELSE DefaultMax

NoTruncate == [called |-> FALSE]

\* inputs of Audit.record: inputSummary and outputSummary
SummaryInputs ==
    [inputSummary : Values,
     outputSummary : {[type |-> "undefined"], StringValue(Repeat(LongLength)),
                      ObjectValue(Repeat(DefaultMax))}]

TruncIdle ==
    /\ lastTruncate = NoTruncate
    /\ summaryRows = <<>>

TruncInit == TruncIdle

\* truncate(value) or truncate(value, max) is called
TruncateCall(value, max) ==
    /\ summaryRows = <<>>
    /\ lastTruncate' = [called |-> TRUE, value |-> value, max |-> max,
                        returned |-> Truncate(value, MaxOr(max))]
    /\ UNCHANGED summaryRows
    /\ UNCHANGED <<batchVars, rbacVars, policyVars, storeVars, redactVars,
                   budgetVars, moreVars>>

\* Audit.record(input): the summaries of the row it inserts
SummariesRecorded(input) ==
    /\ Len(summaryRows) < MaxSummaryRows
    /\ summaryRows' = Append(summaryRows,
          [input |-> input,
           input_summary |-> Truncate(input.inputSummary, DefaultMax),
           output_summary |-> Truncate(input.outputSummary, DefaultMax)])
    /\ lastTruncate' = NoTruncate
    /\ UNCHANGED <<batchVars, rbacVars, policyVars, storeVars, redactVars,
                   budgetVars, moreVars>>

TruncNext ==
    \/ \E value \in Values, max \in Maxes : TruncateCall(value, max)
    \/ \E input \in SummaryInputs : SummariesRecorded(input)

\* ------------------------------------------------------------------------
\* RedactionPlugin "tool.execute.after" (plugin/redaction)
\* ------------------------------------------------------------------------

\* tool outputs handed to the hook: one line each
HookTexts == Lines

\* output.metadata.output: absent, or a string
MetaOutputs == {None} \cup {Some(t) : t \in HookTexts}

NoAfterRun == [called |-> FALSE]

\* user?.role === "admin", mutated: never true
BypassesNever(user) == FALSE

\* if (user?.role === "admin") return
Bypasses(user) == user # Undefined /\ user.role = "admin"

\* findings.map((f) => f.type)
TypesOf(findings) == {findings[k].type : k \in DOMAIN findings}

\* the entry, mutated: the findings themselves are put in the metadata
RedactionEntryWithFindings(user, findings) ==
    [sessionID |-> "ses_1",
     userID |-> user.id,
     action |-> "secret.redacted",
     resourceType |-> "tool",
     resourceID |-> "call_1",
     tool |-> S_bash,
     metadata |-> [count |-> Len(findings), types |-> TypesOf(findings),
                   findings |-> findings]]

\* the entry the hook passes to Audit.record
RedactionEntry(user, findings) ==
    [sessionID |-> "ses_1",
     userID |-> user.id,
     action |-> "secret.redacted",
     resourceType |-> "tool",
     resourceID |-> "call_1",
     tool |-> S_bash,
     metadata |-> [count |-> Len(findings), types |-> TypesOf(findings)]]

\* the strings of one tool output: output.output and, when it is a string,
\* output.metadata.output
StringsOf(o) ==
    {o.output} \cup (IF o.metaOutput.has THEN {o.metaOutput.v} ELSE {})

\* output.metadata.output after the nested redaction, scan being redactSecrets
\* on the strings of the output: a non-empty string is replaced by its
\* redacted text
MetaRedacted(meta, scan) ==
    IF meta.has /\ meta.v # <<>> THEN Some(scan[meta.v].redacted) ELSE meta

HookIdle ==
    /\ toolOutput = [output |-> <<>>, metaOutput |-> None]
    /\ afterRun = NoAfterRun
    /\ redactTrail = <<>>

\* a tool has returned its output in an operation that runs with or without
\* a principal
HookInit ==
    /\ ctxStack \in {[op \in Ops |-> IF op = 1 THEN st ELSE <<>>] :
                       st \in {<<>>} \cup {<<u>> : u \in Users}}
    /\ lastCan = NoCan
    /\ lastAssert = NoAssert
    /\ lastCurrent = NoCurrent
    /\ toolOutput \in [output : HookTexts, metaOutput : MetaOutputs]
    /\ afterRun = NoAfterRun
    /\ redactTrail = <<>>

\* what the hook leaves behind for a principal it does not bypass, scan being
\* redactSecrets on the strings of the output and fault the place where the
\* audit write fails
AfterScan(user, scan, fault) ==
    LET r == scan[toolOutput.output]
    IN  IF Len(r.findings) > 0
          THEN /\ toolOutput' =
                     [output |-> r.redacted,
                      metaOutput |-> MetaRedacted(toolOutput.metaOutput, scan)]
               /\ redactTrail' =
                     IF Record(fault).stored
                       THEN Append(redactTrail, RedactionEntry(user, r.findings))
                       ELSE redactTrail
               /\ afterRun' = [called |-> TRUE, user |-> user,
                               before |-> toolOutput, scanned |-> TRUE,
                               findings |-> r.findings, fault |-> fault]
          ELSE /\ fault = "none"
               /\ afterRun' = [called |-> TRUE, user |-> user,
                               before |-> toolOutput, scanned |-> TRUE,
                               findings |-> r.findings, fault |-> "none"]
               /\ UNCHANGED <<toolOutput, redactTrail>>

\* the "tool.execute.after" hook runs for the tool call
ToolExecuteAfter ==
    /\ ~afterRun.called
    /\ LET user == Current(1).value
       IN  IF Bypasses(user)
             THEN /\ afterRun' = [called |-> TRUE, user |-> user,
                                  before |-> toolOutput, scanned |-> FALSE,
                                  findings |-> <<>>, fault |-> "none"]
                  /\ UNCHANGED <<toolOutput, redactTrail>>
             ELSE \E scan \in {[t \in StringsOf(toolOutput) |-> RedactSecrets(t)]} :
                    \E fault \in Faults : AfterScan(user, scan, fault)
    /\ UNCHANGED <<batchVars, rbacVars, policyVars, storeVars, redactVars,
                   budgetVars, truncVars, pushVars, schedVars>>

HookNext == ToolExecuteAfter

\* ------------------------------------------------------------------------
\* git push protection (analyzeGitPush, test/tool/push-protection.test.ts)
\* ------------------------------------------------------------------------

\* const PROTECTED_BRANCHES = ["main", "master", "release/"]
PROTECTED_BRANCHES == <<<<"m", "a", "i", "n">>, <<"m", "a", "s", "t", "e", "r">>, <<"r", "e", "l", "e", "a", "s", "e", "/">>>>

\* const forceFlags = ["--force", "-f", "--force-with-lease"]
ForceFlags == <<<<"-", "-", "f", "o", "r", "c", "e">>, <<"-", "f">>, <<"-", "-", "f", "o", "r", "c", "e", "-", "w", "i", "t", "h", "-", "l", "e", "a", "s", "e">>>>

\* the words commands are made of
GitVerbs ==
    {<<<<"g", "i", "t">>, <<"p", "u", "s", "h">>>>, <<<<"g", "i", "t">>, <<"p", "u", "l", "l">>>>, <<<<"G", "I", "T">>, <<"P", "u", "s", "h">>>>}

PushOptions == {<<>>, <<<<"-", "-", "f", "o", "r", "c", "e">>>>, <<<<"-", "f">>>>, <<<<"-", "-", "f", "o", "r", "c", "e", "-", "w", "i", "t", "h", "-", "l", "e", "a", "s", "e">>>>}

Remote == <<"o", "r", "i", "g", "i", "n">>

Branches ==
    {<<"m", "a", "i", "n">>, <<"m", "a", "s", "t", "e", "r">>,
     <<"r", "e", "l", "e", "a", "s", "e", "/", "v", "1", ".", "0">>,
     <<"f", "e", "a", "t", "u", "r", "e">>, <<"d", "e", "v", "e", "l", "o", "p">>,
     <<"f", "e", "a", "t", "u", "r", "e", "/", "m", "y", "-", "b", "r", "a", "n", "c", "h">>,
     <<"b", "u", "g", "-", "f", "i", "x">>,
     <<"f", "e", "a", "t", "u", "r", "e", "/", "m", "a", "i", "n", "-", "m", "e", "n", "u">>}

RECURSIVE JoinWords(_)
\* the words with one space between them
JoinWords(words) ==
    IF Len(words) = 1 THEN words[1]
    ELSE words[1] \o <<" ">> \o JoinWords(Tail(words))

\* shell commands handed to the analysis
ShellCommands ==
    {JoinWords(verb \o option \o <<Remote, branch>>) :
        verb \in GitVerbs, option \in PushOptions, branch \in Branches}
    \cup {<<"l", "s", " ", "-", "l", "a">>,
          <<"g", "i", "t", " ", "s", "t", "a", "t", "u", "s">>,
          <<"g", "i", "t", " ", " ", "p", "u", "s", "h", " ", "o", "r", "i", "g", "i", "n", " ", "m", "a", "i", "n">>}

UserRoles == {"admin", "employee", "viewer"}

NoAnalysis == [called |-> FALSE]

NotBlocked == [blocked |-> FALSE, reason |-> None]

\* /\bgit\s+push\b/i matches the command at position i
GitPushAt(command, i) ==
    /\ i + 2 <= Len(command)
    /\ ToLowerCase(SubSeq(command, i, i + 2)) = <<"g", "i", "t">>
    /\ ~IsWordAt(command, i - 1)
    /\ \E n \in 1 .. Len(command) :
          /\ i + 6 + n <= Len(command)
          /\ \A j \in i + 3 .. i + 2 + n : command[j] \in SpaceChars
          /\ ToLowerCase(SubSeq(command, i + 3 + n, i + 6 + n)) =
                <<"p", "u", "s", "h">>
          /\ ~IsWordAt(command, i + 7 + n)

\* new RegExp(`\\b${branch}\\b`).test(command), branch beginning and ending
\* with a word character
BranchRegexTest(command, branch) ==
    \E o \in 0 .. (Len(command) - Len(branch)) :
        /\ SubSeq(command, o + 1, o + Len(branch)) = branch
        /\ ~IsWordAt(command, o)
        /\ ~IsWordAt(command, o + Len(branch) + 1)

\* the test made for one entry of PROTECTED_BRANCHES
BranchHit(command, branch) ==
    IF branch[Len(branch)] = "/" THEN StrIncludes(command, branch)
    ELSE BranchRegexTest(command, branch)

\* analyzeGitPush(command, userRole)
AnalyzeGitPush(command, userRole) ==
    IF ~\E i \in 1 .. Len(command) : GitPushAt(command, i) THEN NotBlocked
    ELSE IF userRole = "admin" THEN NotBlocked
    ELSE IF \E k \in DOMAIN ForceFlags : StrIncludes(command, ForceFlags[k])
      THEN [blocked |-> TRUE,
            reason |-> Some([text |-> "Force pushes are not allowed"])]
    ELSE IF \E k \in DOMAIN PROTECTED_BRANCHES :
               BranchHit(command, PROTECTED_BRANCHES[k])
      THEN LET k == CHOOSE h \in DOMAIN PROTECTED_BRANCHES :
                       /\ BranchHit(command, PROTECTED_BRANCHES[h])
                       /\ \A g \in 1 .. h - 1 :
                             ~BranchHit(command, PROTECTED_BRANCHES[g])
           IN  [blocked |-> TRUE,
                reason |-> Some([text |-> "restricted",
                                 branch |-> PROTECTED_BRANCHES[k]])]
    ELSE NotBlocked

PushIdle ==
    /\ pushCommand = <<>>
    /\ pushRole = "viewer"
    /\ lastAnalysis = NoAnalysis

\* a user of some role is about to run a command
PushInit ==
    /\ pushCommand \in ShellCommands
    /\ pushRole \in UserRoles
    /\ lastAnalysis = NoAnalysis

\* the command is analysed before it runs
AnalyzeCall ==
    /\ ~lastAnalysis.called
    /\ lastAnalysis' = [called |-> TRUE,
                        result |-> AnalyzeGitPush(pushCommand, pushRole)]
    /\ UNCHANGED <<pushCommand, pushRole>>
    /\ UNCHANGED <<batchVars, rbacVars, policyVars, storeVars, redactVars,
                   budgetVars, truncVars, hookVars, schedVars>>

PushNext == AnalyzeCall

\* ------------------------------------------------------------------------
\* Retention.start / Retention.stop (rbac/rbac.ts, namespace Retention)
\* ------------------------------------------------------------------------

\* Most advances of the clock in one run.
MaxAdvances == 4

\* Most setTimeout callbacks pending at once.
MaxPending == 2

\* the delay of the initial sweep: 30_000 ms
InitialDelayMs == 30000

\* OPENCODE_RETENTION_CHECK_INTERVAL_HOURS ?? "24"
DefaultCheckIntervalHours == 24

\* config.checkIntervalHours * 60 * 60 * 1000
IntervalMs == DefaultCheckIntervalHours * 60 * 60 * 1000

\* the amounts of time that pass between two events
Passages == {10000, InitialDelayMs, IntervalMs}

\* due times of the timers that are set
DueTimes ==
    initialDue \cup (IF retentionTimer.has THEN {retentionTimer.v} ELSE {})

SchedIdle ==
    /\ retentionTimer = None
    /\ initialDue = {}
    /\ schedClock = 0
    /\ advances = 0
    /\ lastSchedCall = "none"
    /\ lastFired = "none"

\* time passes, up to the next due time at most
Advance(d) ==
    /\ advances < MaxAdvances
    /\ \A due \in DueTimes : due > schedClock
    /\ schedClock' =
          IF \E due \in DueTimes : due < schedClock + d
            THEN CHOOSE due \in DueTimes : \A o \in DueTimes : due <= o
            ELSE schedClock + d
    /\ advances' = advances + 1
    /\ lastFired' = "none"
    /\ UNCHANGED <<retentionTimer, initialDue, lastSchedCall>>
    /\ UNCHANGED <<batchVars, rbacVars, policyVars, storeVars, redactVars,
                   budgetVars, truncVars, hookVars, pushVars>>

\* Retention.start()
Start ==
    /\ Cardinality(initialDue) < MaxPending
    /\ IF retentionTimer.has
         THEN UNCHANGED <<retentionTimer, initialDue>>
         ELSE /\ initialDue' = initialDue \cup {schedClock + InitialDelayMs}
              /\ retentionTimer' = Some(schedClock + IntervalMs)
    /\ lastSchedCall' = "start"
    /\ lastFired' = "none"
    /\ UNCHANGED <<schedClock, advances>>
    /\ UNCHANGED <<batchVars, rbacVars, policyVars, storeVars, redactVars,
                   budgetVars, truncVars, hookVars, pushVars>>

\* Retention.stop()
Stop ==
    /\ retentionTimer' = None
    /\ lastSchedCall' = "stop"
    /\ lastFired' = "none"
    /\ UNCHANGED <<initialDue, schedClock, advances>>
    /\ UNCHANGED <<batchVars, rbacVars, policyVars, storeVars, redactVars,
                   budgetVars, truncVars, hookVars, pushVars>>

\* a setTimeout callback of start() runs: the initial sweep begins
InitialTimeoutFires ==
    /\ \E due \in initialDue :
          /\ due <= schedClock
          /\ initialDue' = initialDue \ {due}
    /\ lastFired' = "initial"
    /\ UNCHANGED <<retentionTimer, schedClock, advances, lastSchedCall>>
    /\ UNCHANGED <<batchVars, rbacVars, policyVars, storeVars, redactVars,
                   budgetVars, truncVars, hookVars, pushVars>>

\* the setInterval callback runs: a periodic sweep begins
IntervalFires ==
    /\ retentionTimer.has
    /\ retentionTimer.v <= schedClock
    /\ retentionTimer' = Some(retentionTimer.v + IntervalMs)
    /\ lastFired' = "periodic"
    /\ UNCHANGED <<initialDue, schedClock, advances, lastSchedCall>>
    /\ UNCHANGED <<batchVars, rbacVars, policyVars, storeVars, redactVars,
                   budgetVars, truncVars, hookVars, pushVars>>

SchedNext ==
    \/ \E d \in Passages : Advance(d)
    \/ Start
    \/ Stop
    \/ InitialTimeoutFires
    \/ IntervalFires

MoreIdle == HookIdle /\ PushIdle /\ SchedIdle

\* neither the store, the scan nor the tracker is in use
GovIdle == StoreIdle /\ RedactIdle /\ BudgetIdle /\ TruncIdle /\ MoreIdle

Init == BatchInit /\ RbacIdle /\ PolicyIdle /\ GovIdle

Next == BatchNext

Spec == Init /\ [][Next]_vars

InitRBAC == RbacInit /\ PolicyIdle /\ BatchIdle /\ GovIdle

NextRBAC == RbacNext

SpecRBAC == InitRBAC /\ [][NextRBAC]_vars

InitPolicy == PolicyInit /\ BatchIdle /\ GovIdle

NextPolicy == PolicyNext

SpecPolicy == InitPolicy /\ [][NextPolicy]_vars

NextPolicyEdit == PolicyEditNext

SpecPolicyEdit == InitPolicy /\ [][NextPolicyEdit]_vars

InitStore ==
    /\ StoreInit /\ BatchIdle /\ RbacIdle /\ PolicyIdle
    /\ RedactIdle /\ BudgetIdle /\ TruncIdle /\ MoreIdle

NextStore == StoreNext

SpecStore == InitStore /\ [][NextStore]_vars

InitRedact ==
    /\ RedactInit /\ BatchIdle /\ RbacIdle /\ PolicyIdle
    /\ StoreIdle /\ BudgetIdle /\ TruncIdle /\ MoreIdle

NextRedact == RedactNext

SpecRedact == InitRedact /\ [][NextRedact]_vars

InitBudget ==
    /\ BudgetInit /\ BatchIdle /\ RbacIdle /\ PolicyIdle
    /\ StoreIdle /\ RedactIdle /\ TruncIdle /\ MoreIdle

NextBudget == BudgetNext

SpecBudget == InitBudget /\ [][NextBudget]_vars

InitTruncate ==
    /\ TruncInit /\ BatchIdle /\ RbacIdle /\ PolicyIdle
    /\ StoreIdle /\ RedactIdle /\ BudgetIdle /\ MoreIdle

NextTruncate == TruncNext

SpecTruncate == InitTruncate /\ [][NextTruncate]_vars

InitHook ==
    /\ HookInit /\ BatchIdle /\ PolicyIdle
    /\ StoreIdle /\ RedactIdle /\ BudgetIdle /\ TruncIdle
    /\ PushIdle /\ SchedIdle

NextHook == HookNext

SpecHook == InitHook /\ [][NextHook]_vars

InitPush ==
    /\ PushInit /\ BatchIdle /\ RbacIdle /\ PolicyIdle
    /\ StoreIdle /\ RedactIdle /\ BudgetIdle /\ TruncIdle
    /\ HookIdle /\ SchedIdle

NextPush == PushNext

SpecPush == InitPush /\ [][NextPush]_vars

InitSched ==
    /\ SchedIdle /\ BatchIdle /\ RbacIdle /\ PolicyIdle
    /\ StoreIdle /\ RedactIdle /\ BudgetIdle /\ TruncIdle
    /\ HookIdle /\ PushIdle

NextSched == SchedNext

SpecSched == InitSched /\ [][NextSched]_vars

\* ------------------------------------------------------------------------
\* Properties of ParallelTaskTool.execute (checked under Spec)
\* ------------------------------------------------------------------------

NoChildSession == \A i \in TaskIds : session[i] = 0 /\ tpc[i] = "idle"

Running(i) == tpc[i] \in {"creating", "resolving", "prompting"}

\* C1: no child session is created (and no execution loop is started) before
\* the single batch-level permission request has resolved; a batch whose
\* request is denied ends with zero child sessions and no loop started.
C1_PermissionBeforeSessions ==
    /\ askCount <= 1
    /\ (\E i \in TaskIds : session[i] # 0 \/ tpc[i] # "idle")
          => permission = "allowed"
    /\ permission = "denied"
          => /\ bpc = "threw"
             /\ NoChildSession
             /\ \A i \in TaskIds : results[i].status = "pending"

\* C1 witness: a batch of several tasks was denied at the permission check
C1_Witness ==
    /\ permission = "denied"
    /\ bpc = "threw"
    /\ N = 3
    /\ \A i \in TaskIds : tasks[i] \in KnownAgents

\* C2: every task's agent is resolved before the first Session.create; a
\* batch naming an unknown agent type at any position never creates a child
\* session, and once the unknown type is looked up the batch has failed with
\* "Unknown agent type".
C2_AllAgentsResolvedFirst ==
    /\ (\E i \in TaskIds : session[i] # 0 \/ tpc[i] # "idle")
          => /\ looked = TaskIds
             /\ \A i \in TaskIds : tasks[i] \in KnownAgents
    /\ (\E i \in TaskIds : tasks[i] \notin KnownAgents)
          => /\ NoChildSession
             /\ bpc \notin {"message", "dispatched", "aggregated"}
    /\ (\E i \in looked : tasks[i] \notin KnownAgents)
          => bpc = "threw" /\ error = "Unknown agent type"

\* C2 witness: the unknown type is the last task and is looked up last
C2_Witness ==
    /\ N = 3
    /\ tasks[1] \in KnownAgents /\ tasks[2] \in KnownAgents
    /\ tasks[3] \notin KnownAgents
    /\ looked = {1, 2, 3}
    /\ bpc = "threw"
    /\ error = "Unknown agent type"
    /\ NoChildSession

TimerStep(i) == timer[i] = "armed" /\ timer'[i] = "fired"

RejectStep(i) == tpc[i] # "rejected" /\ tpc'[i] = "rejected"

SiblingUntouched(j) ==
    /\ tpc'[j] = tpc[j]
    /\ timer'[j] = timer[j]
    /\ (j \in listener') = (j \in listener)
    /\ (session[j] \in cancelled') = (session[j] \in cancelled)
    /\ \A k \in TaskIds : results[k].task = j => results'[k] = results[k]

TaskCanProceed(j) ==
    ENABLED (\/ SessionCreated(j) \/ SessionCreateFails(j)
             \/ PromptPartsResolved(j) \/ TaskFails(j) \/ TaskReturns(j))

\* C3: a step in which task i's timer fires or task i rejects changes
\* nothing of a sibling j # i (its position, timer, listener, result, and
\* whether its session was cancelled) and leaves the batch dispatched; while
\* the batch is dispatched every unsettled task can take its next step.
C3_SiblingIsolation ==
    /\ [][\A i \in TaskIds :
            (TimerStep(i) \/ RejectStep(i))
               => /\ bpc' = "dispatched"
                  /\ \A j \in TaskIds \ {i} : SiblingUntouched(j)]_vars
    /\ [](\A j \in TaskIds :
            (bpc = "dispatched" /\ ~Settled(j)) => TaskCanProceed(j))

\* C3 witness: one task timed out and was rejected, its sibling was never
\* cancelled and fulfilled
C3_Witness ==
    /\ bpc = "aggregated"
    /\ N = 2
    /\ timer[1] = "fired" /\ tpc[1] = "rejected"
    /\ session[1] \in cancelled
    /\ session[2] # 0 /\ session[2] \notin cancelled
    /\ tpc[2] = "fulfilled"

\* C4: the returned breakdown has one entry per task, entry i is the
\* outcome of task i, succeeded counts the fulfilled tasks and
\* succeeded + failed is the number of tasks.
C4_ResultsInInputOrder ==
    bpc = "aggregated" =>
        /\ ret.set
        /\ DOMAIN ret.output = 1..N
        /\ \A i \in 1..N : /\ ret.output[i].task = i
                           /\ ret.output[i].of = i
                           /\ ret.output[i].status = tpc[i]
        /\ ret.succeeded = Cardinality({i \in 1..N : tpc[i] = "fulfilled"})
        /\ ret.succeeded + ret.failed = N
        /\ ret.tasks = N

\* C4 witness: five tasks, only the third fails
C4_Witness ==
    /\ bpc = "aggregated"
    /\ N = 5
    /\ tpc[3] = "rejected"
    /\ \A i \in {1, 2, 4, 5} : tpc[i] = "fulfilled"
    /\ ret.succeeded = 4
    /\ ret.failed = 1

\* C5 as stated: once validation and the batch-level authorization have
\* succeeded, execute() never fails as a whole.
C5_Original == permission = "allowed" => bpc # "threw"

\* C5 amended: once the batch is dispatched (validation, authorization,
\* agent resolution and the parent-message lookup have succeeded) execute()
\* never fails as a whole: it stays dispatched until it returns, it can
\* return as soon as every task has settled, and every task that failed is
\* a rejected entry of the returned breakdown.
C5_NoWholesaleFailureOnceDispatched ==
    /\ [][bpc = "dispatched" => bpc' \in {"dispatched", "aggregated"}]_vars
    /\ []((bpc = "dispatched" /\ \A i \in TaskIds : Settled(i))
             => ENABLED Aggregate)
    /\ [](bpc = "aggregated"
             => \A i \in TaskIds :
                  tpc[i] = "rejected" => ret.output[i].status = "rejected")

\* C5 witness: every task of a dispatched batch failed, at session
\* creation, in prompt resolution and in the loop, and execute() returned
C5_Witness ==
    /\ bpc = "aggregated"
    /\ N = 3
    /\ \A i \in TaskIds : tpc[i] = "rejected"
    /\ session[1] = 0 /\ session[2] # 0
    /\ ret.failed = 3

\* C6 as stated: when ctx.abort has fired while the batch was dispatched,
\* every child session whose execution loop has not finished has received
\* SessionPrompt.cancel.
C6_AbortReachesEveryChild ==
    abortedAt = "dispatched" =>
        \A i \in TaskIds :
            (session[i] # 0 /\ ~Settled(i)) => session[i] \in cancelled

\* C7: a batch of zero or of more than 5 tasks is rejected before any
\* permission request, agent lookup or session creation, and never more
\* than 5 child sessions run at once.
C7_ValidatedBeforeSideEffects ==
    /\ (N = 0 \/ N > 5)
          => /\ bpc \in {"called", "invalid"}
             /\ askCount = 0
             /\ permission = "none"
             /\ looked = {}
             /\ NoChildSession
    /\ Cardinality({i \in TaskIds : session[i] # 0 /\ ~Settled(i)}) <= 5
    /\ Cardinality({i \in TaskIds : Running(i)}) <= 5

\* C7 witness: a batch of six tasks was rejected by validation
C7_Witness ==
    /\ N = 6
    /\ bpc = "invalid"
    /\ \A i \in TaskIds : tasks[i] \in KnownAgents

\* ------------------------------------------------------------------------
\* Properties of the permission.ask hook (checked under SpecPolicy)
\* ------------------------------------------------------------------------

Rank(role) ==
    CASE role = "viewer" -> 0
      [] role = "employee" -> 1
      [] role = "admin" -> 2

\* the minimum role the capability table lists, employee when unlisted
MinimumRole(capability) ==
    IF \E c \in DOMAIN CAPABILITIES : c = capability
      THEN CAPABILITIES[capability] ELSE "employee"

\* the principal the operation of the request runs with, or Undefined
BoundPrincipal ==
    IF ctxStack[1] = <<>> THEN Undefined ELSE ctxStack[1][Len(ctxStack[1])]

\* the role whose deny list applies: the principal's, and viewer's when no
\* principal is bound
DenyListRole == IF BoundPrincipal = Undefined THEN "viewer" ELSE BoundPrincipal.role

RequestedTool ==
    IF req.metadata.tool = None THEN req.type ELSE req.metadata.tool.v

\* the tool name equals an element of the list, character by character
OnList(list, tool) ==
    list # None /\ tool \in {list.v[k] : k \in DOMAIN list.v}

RoleDenyList ==
    CASE DenyListRole = "viewer" -> GetPolicy.viewer_deny_tools
      [] DenyListRole = "employee" -> GetPolicy.employee_deny_tools
      [] OTHER -> None

SameIgnoringCase(a, b) == LowerChar(a) = LowerChar(b)

\* pattern occurs in text at some offset, letters compared ignoring case
OccursIgnoringCase(pattern, text) ==
    \E o \in 0..Len(text) :
        /\ o + Len(pattern) <= Len(text)
        /\ \A j \in 1..Len(pattern) : SameIgnoringCase(text[o + j], pattern[j])

SomePatternOccurs ==
    /\ GetPolicy.deny_patterns # None
    /\ \E k \in DOMAIN GetPolicy.deny_patterns.v :
          OccursIgnoringCase(GetPolicy.deny_patterns.v[k],
                             JSONStringify(req.metadata))

\* the first rule of the fixed order that matches the request
FirstMatchingRule ==
    CASE /\ BoundPrincipal # Undefined
         /\ BoundPrincipal.role = "viewer"
         /\ Rank("viewer") < Rank(MinimumRole("tool.execute")) -> 1
      [] OTHER ->
    CASE OnList(GetPolicy.deny_tools, RequestedTool) -> 2
      [] OTHER ->
    CASE OnList(RoleDenyList, RequestedTool) -> 3
      [] OTHER ->
    CASE SomePatternOccurs -> 4
      [] OTHER ->
    CASE OnList(GetPolicy.require_approval_tools, RequestedTool) -> 5
      [] OTHER -> 6

\* C8: the status after permission.ask is the one of the first matching
\* rule: deny for rules 1-4, the status left as it was (pending) for rule 5,
\* and for rule 6 allow for an admin and the status left as it was
\* otherwise; deny lists match by exact, case-sensitive equality and deny
\* patterns as case-insensitive substrings of the serialized metadata.
C8_FirstMatchingRuleDecides ==
    ppc # "idle" =>
        out.status =
            CASE FirstMatchingRule \in {1, 2, 3, 4} -> "deny"
              [] FirstMatchingRule = 5 -> "ask"
              [] OTHER -> IF BoundPrincipal # Undefined
                             /\ BoundPrincipal.role = "admin"
                            THEN "allow" ELSE "ask"

\* C8 witness: an employee asks for "Bash" while only "bash" is on the
\* global deny list; the request is denied by the pattern "rM" found in the
\* command "Rm"
C8_Witness ==
    /\ ppc = "asked"
    /\ BoundPrincipal # Undefined /\ BoundPrincipal.role = "employee"
    /\ req.type = S_Bash /\ req.metadata.tool = None
    /\ req.metadata.command = S_Rm
    /\ policyEnv.parsed
    /\ policyEnv.policy.deny_tools = Some(<<S_bash>>)
    /\ policyEnv.policy.deny_patterns = Some(<<S_rM>>)
    /\ FirstMatchingRule = 4
    /\ out.status = "deny"
    /\ Len(audit) = 1
    /\ audit[1].metadata.reason.text = "Input contains denied pattern"

\* C9: a tool on the approval-required list never leaves permission.ask
\* with status allow, whatever the role: it is denied or left pending.
C9_ApprovalRequiredNeverAllowed ==
    (ppc # "idle" /\ OnList(GetPolicy.require_approval_tools, RequestedTool))
        => out.status \in {"deny", "ask"}

\* C9 witness: an admin asks for a tool on the approval-required list that
\* no deny rule matches; the status is left pending
C9_Witness ==
    /\ ppc = "asked"
    /\ BoundPrincipal # Undefined /\ BoundPrincipal.role = "admin"
    /\ OnList(GetPolicy.require_approval_tools, RequestedTool)
    /\ FirstMatchingRule = 5
    /\ out.status = "ask"

\* ------------------------------------------------------------------------
\* Properties of RBAC (checked under SpecRBAC)
\* ------------------------------------------------------------------------

\* C10: can(c) with a principal of role r bound returns
\* rank(r) >= rank(requiredRole(c)), so admin can do everything and viewer
\* cannot session.create; with no principal bound it returns false; it
\* never raises.
C10_CanIsRankComparison ==
    lastCan # NoCan =>
        /\ ~lastCan.returned.raised
        /\ lastCan.returned.value \in BOOLEAN
        /\ lastCan.bound = Undefined => lastCan.returned.value = FALSE
        /\ lastCan.bound # Undefined =>
              /\ lastCan.returned.value =
                    (Rank(lastCan.bound.role)
                        >= Rank(MinimumRole(lastCan.capability)))
              /\ lastCan.bound.role = "admin" => lastCan.returned.value
              /\ (lastCan.bound.role = "viewer"
                    /\ lastCan.capability = "session.create")
                    => ~lastCan.returned.value
              /\ (lastCan.bound.role = "viewer"
                    /\ lastCan.capability \notin DOMAIN CAPABILITIES)
                    => ~lastCan.returned.value

\* C10 witness: a viewer asked for the unlisted capability tool.execute
\* inside a provide() nested in an admin's, and was refused
C10_Witness ==
    /\ lastCan # NoCan
    /\ lastCan.op = 1
    /\ lastCan.capability = "tool.execute"
    /\ lastCan.bound # Undefined /\ lastCan.bound.role = "viewer"
    /\ Len(ctxStack[1]) = 2 /\ ctxStack[1][1].role = "admin"
    /\ ctxStack[1][2] = lastCan.bound
    /\ lastCan.returned = [raised |-> FALSE, value |-> FALSE]

\* the role an assertion demands: the one passed to assertRole, the
\* capability's minimum role for assertCan
DemandedRole ==
    IF lastAssert.fn = "assertRole" THEN lastAssert.required
    ELSE MinimumRole(lastAssert.capability.v)

\* C11: assertRole(required) and assertCan(capability) raise
\* AuthRequiredError exactly when no principal is bound; raise ForbiddenError
\* carrying the current role, the required role and (for assertCan) the
\* capability name exactly when a principal is bound whose rank is below the
\* required rank; and return without raising otherwise.
C11_AssertRaisesExactly ==
    lastAssert # NoAssert =>
        LET b == lastAssert.bound
            t == lastAssert.thrown
            below == b # Undefined /\ Rank(b.role) < Rank(DemandedRole)
        IN  /\ t.name \in {"none", "AuthRequiredError", "ForbiddenError"}
            /\ (t.name = "AuthRequiredError") <=> (b = Undefined)
            /\ (t.name = "ForbiddenError") <=> below
            /\ (t.name = "none") <=> (b # Undefined /\ ~below)
            /\ t.name = "ForbiddenError" =>
                  /\ t.currentRole = b.role
                  /\ t.requiredRole = DemandedRole
                  /\ t.capability = lastAssert.capability

\* C11 witness: a viewer's assertCan("config.write") was refused with a
\* ForbiddenError naming viewer, admin and the capability
C11_Witness ==
    /\ lastAssert # NoAssert
    /\ lastAssert.fn = "assertCan"
    /\ lastAssert.capability = Some("config.write")
    /\ lastAssert.bound = [id |-> "view", role |-> "viewer"]
    /\ lastAssert.thrown =
          ForbiddenError("viewer", "admin", Some("config.write"))

\* the user bound around the innermost provide() of op, Undefined at top level
Enclosing(op) ==
    IF Len(ctxStack[op]) >= 2 THEN ctxStack[op][Len(ctxStack[op]) - 1]
    ELSE Undefined

\* C12: inside provide(u, fn) current() returns u for the whole execution of
\* fn; a nested provide(v, g) makes current() return v only inside g and u
\* again once g has returned; and operations running concurrently with
\* different principals never observe each other's principal: entering or
\* leaving a provide() in one operation leaves current() of every other
\* operation as it was.
C12_ContextIsolation ==
    [][\A op \in Ops :
          /\ \A u \in Users : Provide(op, u) =>
                /\ Current(op)'.value = u
                /\ \A o \in Ops \ {op} : Current(o)' = Current(o)
          /\ Restore(op) =>
                /\ Current(op)'.value = Enclosing(op)
                /\ \A o \in Ops \ {op} : Current(o)' = Current(o)
          /\ ctxStack'[op] = ctxStack[op] => Current(op)' = Current(op)
          /\ CurrentCall(op) =>
                lastCurrent'.returned = [raised |-> FALSE, value |-> Bound(op)]
      ]_vars

\* C12 witness: operation 1 saw the viewer inside a provide() nested in the
\* admin's, that provide() has returned and current() is the admin again,
\* while operation 2 runs as the employee
C12_Witness ==
    /\ lastCurrent # NoCurrent
    /\ lastCurrent.op = 1
    /\ lastCurrent.depth = 2
    /\ lastCurrent.returned.value = [id |-> "view", role |-> "viewer"]
    /\ ctxStack[1] = <<[id |-> "adm", role |-> "admin"]>>
    /\ Current(1).value = [id |-> "adm", role |-> "admin"]
    /\ Current(2).value = [id |-> "emp", role |-> "employee"]

\* ------------------------------------------------------------------------
\* Audit writes requested by the policy hook (checked under SpecPolicy)
\* ------------------------------------------------------------------------

\* C13: a failure while persisting or publishing an audit entry is caught
\* and logged: Audit.record never re-raises it to the governed operation,
\* and the decision of the policy hook that requested the write (deny stays
\* deny) is the decision it makes when the write succeeds.
C13_AuditFailureNeverPropagates ==
    (ppc # "idle" /\ auditRun.called) =>
        /\ ~auditRun.recordRaised
        /\ ~auditRun.raised
        /\ auditRun.fault # "none" => Len(auditRun.logged) > 0
        /\ AskOutcome(1, req, GetPolicy).status = "deny"
        /\ out.status = "deny"
        /\ out = [status |-> AskOutcome(1, req, GetPolicy).status]

\* C13 witness: the insert of a denial's audit row failed, nothing was
\* stored, the failure was logged and the request is denied
C13_Witness ==
    /\ ppc = "asked"
    /\ auditRun.called
    /\ auditRun.fault = "insert"
    /\ audit = <<>>
    /\ auditRun.logged = <<"failed to write audit log">>
    /\ out.status = "deny"

\* ------------------------------------------------------------------------
\* Properties of the audit store and of retention (checked under SpecStore)
\* ------------------------------------------------------------------------

Ids(rows) == {r.id : r \in rows}

\* ids of the rows stamped after the cutoff
IdsAfter(rows, cutoff) == {r.id : r \in {x \in rows : x.time_created > cutoff}}

\* C14: the audit trail is append-only: whatever is recorded, listed, swept
\* or removed, every audit entry still stored keeps exactly the field values
\* it was written with (its sessionID included), and an entry leaves the
\* store only in a step of an age-cutoff retention sweep.
C14_AppendOnly ==
    [][\A r \in auditLogTable :
          \/ r \in auditLogTable'
          \/ /\ r.id \notin Ids(auditLogTable')
             /\ AuditRetentionRun \/ RetentionSweep
      ]_vars

\* C15: Audit.list returns only entries that match every supplied filter
\* (sessionID, userID, action, start <= createdAt <= end), newest first, and
\* never more than the limit, which is 100 when none is given and never
\* exceeds 100.
C15_ListFiltersOrderLimit ==
    lastList.called =>
        LET input == lastList.input
            entries == lastList.entries
        IN  /\ \A i \in DOMAIN entries :
                  /\ input.sessionID # None
                        => entries[i].sessionID = input.sessionID
                  /\ input.userID # None => entries[i].userID = input.userID
                  /\ input.action # None
                        => entries[i].action = input.action.v
                  /\ input.start # None
                        => input.start.v <= entries[i].created
                  /\ input.end # None => entries[i].created <= input.end.v
            /\ \A i, j \in DOMAIN entries :
                  i < j => entries[i].created >= entries[j].created
            /\ Len(entries) <= lastList.limit
            /\ input.limit = None => lastList.limit = 100
            /\ lastList.limit <= 100

\* C16: every audit retention sweep, run with cutoff c = now - N days,
\* deletes exactly the audit rows stamped at or before c (a row stamped
\* exactly at c goes, a newer row stays), and run again with the same cutoff
\* it deletes nothing more.
C16_SweepDeletesUpToCutoff ==
    [][/\ AuditRetentionRun =>
             LET c == now - retentionConf.retentionDays * DAY
             IN  /\ Ids(auditLogTable') = IdsAfter(auditLogTable, c)
                 /\ IdsAfter(auditLogTable', c) = Ids(auditLogTable')
       /\ RetentionSweep =>
             LET c == now - GetConfig(retentionConf).auditDays * DAY
             IN  /\ Ids(auditLogTable') = IdsAfter(auditLogTable, c)
                 /\ IdsAfter(auditLogTable', c) = Ids(auditLogTable')
      ]_vars

\* C17: with the retention window of sessions (of audit logs) configured as
\* 0 days, Retention.sweep deletes no session (no audit row): 0 means keep
\* forever.
C17_ZeroDisablesRetention ==
    [][RetentionSweep =>
          /\ retentionConf.sessions = Some(S_0) => sessionTable' = sessionTable
          /\ retentionConf.audit = Some(S_0)
                => Ids(auditLogTable') = Ids(auditLogTable)
      ]_vars

\* ------------------------------------------------------------------------
\* Properties of redactSecrets (checked under SpecRedact)
\* ------------------------------------------------------------------------

\* C18: redaction is idempotent: scanning the redacted output of a first
\* scan again yields zero findings and leaves the text unchanged; no
\* matcher matches a placeholder written by the first scan.
C18_RedactionIdempotent ==
    Len(scans) >= 2 =>
        /\ scans[2].findings = <<>>
        /\ scans[2].redacted = scans[1].redacted

\* one match with exactly the characters of the capture group replaced by
\* the placeholder, or the whole match when the matcher declares no group
GroupReplaced(pattern, text, m) ==
    IF pattern.group /\ m.ge > m.gs
      THEN SubSeq(text, m.start, m.gs - 1) \o Placeholder(pattern.name)
             \o SubSeq(text, m.ge, m.end - 1)
      ELSE Placeholder(pattern.name)

RECURSIVE EveryGroupReplaced(_, _, _, _, _)
\* text from pos on with the i-th and later matches replaced that way
EveryGroupReplaced(pattern, text, matches, i, pos) ==
    IF i > Len(matches) THEN SubSeq(text, pos, Len(text))
    ELSE SubSeq(text, pos, matches[i].start - 1)
           \o GroupReplaced(pattern, text, matches[i])
           \o EveryGroupReplaced(pattern, text, matches, i + 1, matches[i].end)

\* C19: for a matcher with a declared capture group redactSecrets replaces
\* exactly the characters captured by the group with
\* [REDACTED:<pattern-name>] and leaves every other character of the match
\* and of the surrounding text unchanged; for a matcher without a declared
\* group the whole match is replaced by the placeholder.
C19_ExactlyTheGroupReplaced ==
    scans # <<>> =>
        \A i \in DOMAIN scans[1].passes :
            LET pass == scans[1].passes[i]
            IN  pass.after =
                  EveryGroupReplaced(SECRET_PATTERNS[i], pass.before,
                                     pass.matches, 1, 1)

\* ------------------------------------------------------------------------
\* Properties of Budget.check (checked under SpecBudget)
\* ------------------------------------------------------------------------

\* the ceiling is present and the counter has reached it
Reached(limit, used) == limit.has /\ used >= limit.v

\* the ceiling is present, is not 0, and the counter has reached it
ReachedNonZero(limit, used) == limit.has /\ limit.v # 0 /\ used >= limit.v

Elapsed == clock - budget.startTime

\* C20 as stated: Budget.check returns a violation if and only if some
\* configured limit is reached (toolCalls >= maxToolCalls, or totalTokens
\* >= maxTokens, or elapsed time >= timeoutMs).
C20_Original ==
    lastCheck.called =>
        (lastCheck.returned.has <=>
            \/ Reached(budget.limits.maxToolCalls, budget.toolCalls)
            \/ Reached(budget.limits.maxTokens, budget.totalTokens)
            \/ Reached(budget.limits.timeoutMs, Elapsed))

\* C20: Budget.check returns a violation if and only if some limit that is
\* configured with a value other than 0 is reached; an absent limit (and a
\* limit of 0) disables its check, so a tracker with no limits never
\* reports a violation whatever was recorded, and with maxToolCalls = 10 a
\* violation is reported at 10 recorded calls but, the other ceilings not
\* being reached, not at 9.
C20_ViolationIffNonZeroLimitReached ==
    lastCheck.called =>
        LET l == budget.limits
            others ==
                \/ ReachedNonZero(l.maxTokens, budget.totalTokens)
                \/ ReachedNonZero(l.timeoutMs, Elapsed)
        IN  /\ lastCheck.returned.has <=>
                  \/ ReachedNonZero(l.maxToolCalls, budget.toolCalls)
                  \/ others
            /\ (~l.maxToolCalls.has /\ ~l.maxTokens.has /\ ~l.timeoutMs.has)
                  => ~lastCheck.returned.has
            /\ (l.maxToolCalls = Some(TenCalls) /\ budget.toolCalls = TenCalls)
                  => lastCheck.returned.has
            /\ (l.maxToolCalls = Some(TenCalls)
                   /\ budget.toolCalls = TenCalls - 1 /\ ~others)
                  => ~lastCheck.returned.has

\* a tracker limited to 10 tool calls is checked at 10 recorded calls, no
\* other ceiling being reached, and reports the tool-call violation
C20_Witness ==
    /\ lastCheck.called
    /\ budget.limits.maxToolCalls = Some(TenCalls)
    /\ budget.toolCalls = TenCalls
    /\ ~ReachedNonZero(budget.limits.maxTokens, budget.totalTokens)
    /\ ~ReachedNonZero(budget.limits.timeoutMs, Elapsed)
    /\ lastCheck.returned.has

Released(i) == i \notin listener /\ timer[i] # "armed"

\* C23: on every exit path of a dispatched task (normal completion, failure
\* of prompt resolution or of the execution loop, timeout, external
\* cancellation) the task's abort listener is removed from the caller's
\* signal and its timeout timer is cleared, so after the batch returns no
\* listener or timer of any task remains registered and no timer can fire
\* for a finished task.
C23_WiringReleasedOnEveryExit ==
    [][/\ \A i \in TaskIds :
             /\ Settled(i)' => Released(i)'
             /\ Settled(i) => ~TimerStep(i)
       /\ bpc' \in {"aggregated", "threw"} =>
             \A i \in TaskIds : Released(i)']_vars

\* the batch has returned; a task with a time budget failed while its
\* timer was pending, and a task whose session had been cancelled completed
C23_Witness ==
    /\ bpc = "aggregated"
    /\ \E i \in TaskIds :
          /\ HasTimeout(i)
          /\ tpc[i] = "rejected"
          /\ session[i] # 0
          /\ timer[i] = "none"
    /\ \E j \in TaskIds : tpc[j] = "fulfilled" /\ session[j] \in cancelled

\* an audit row that records the description and the agent type of task i
RecordsTask(row, i) ==
    /\ "title" \in DOMAIN row
    /\ row.title.description = i
    /\ row.title.agent = tasks[i]

\* C24: for every rejected task of a batch, the batch output carries that
\* task's failure message verbatim, and an audit entry recording the task's
\* description and agent type is written to the audit trail.
C24_RejectedTaskReportedAndAudited ==
    bpc = "aggregated" =>
        \A i \in TaskIds :
            tpc[i] = "rejected" =>
                /\ ret.output[i].text = <<"ERROR: ", results[i].reason>>
                /\ \E row \in trail : RecordsTask(row, i)

\* ------------------------------------------------------------------------
\* Auditing of the permission.ask outcomes (checked under SpecPolicy)
\* ------------------------------------------------------------------------

\* the audit rows with action policy.denied
DeniedRows == SelectSeq(audit, LAMBDA e : e.action = "policy.denied")

\* a policy.denied row of the request: decision deny, with a reason and the
\* role of the bound principal
IsDenialOfRequest(e) ==
    /\ e.action = "policy.denied"
    /\ e.decision = "deny"
    /\ e.sessionID = req.sessionID
    /\ e.tool = RequestedTool
    /\ e.metadata.reason # NoReason
    /\ e.metadata.role = BoundPrincipal.role

\* C25 as stated: each deny outcome of the permission.ask hook has recorded
\* exactly one audit entry (action policy.denied, decision deny, carrying
\* the reason and role) by the time the hook returns, and a request that the
\* hook does not deny records no policy.denied entry.
C25_Original ==
    ppc # "idle" =>
        IF out.status = "deny"
          THEN Len(DeniedRows) = 1 /\ IsDenialOfRequest(DeniedRows[1])
          ELSE DeniedRows = <<>>

\* C25: by the time the permission.ask hook returns with a deny outcome it
\* has made exactly one Audit.record call for a policy.denied entry
\* (decision deny, carrying the reason and role) and awaited it: the audit
\* trail holds exactly that one entry, or none when the write failed at the
\* insert; a request that the hook does not deny makes no such call and
\* records no policy.denied entry.
C25_DenyRecordedOnceUnlessWriteFails ==
    ppc # "idle" =>
        IF out.status = "deny"
          THEN /\ auditRun.called
               /\ auditRun.stored = (auditRun.fault # "insert")
               /\ IF auditRun.stored
                    THEN Len(DeniedRows) = 1 /\ IsDenialOfRequest(DeniedRows[1])
                    ELSE DeniedRows = <<>>
          ELSE auditRun = NoAuditRun /\ DeniedRows = <<>>

\* the hook has returned deny for a tool on the viewer deny list and the
\* one policy.denied entry is in the trail
C25_Witness ==
    /\ ppc = "asked"
    /\ out.status = "deny"
    /\ FirstMatchingRule = 3
    /\ auditRun.called /\ auditRun.fault = "none"
    /\ Len(audit) = 1
    /\ IsDenialOfRequest(audit[1])

\* C26: each approval-required outcome of the permission.ask hook (tool on
\* the approval-required list, decision left pending) has recorded exactly
\* one audit entry by the time the hook returns.
C26_ApprovalRequiredAudited ==
    (ppc # "idle" /\ FirstMatchingRule = 5 /\ out.status = "ask")
        => Len(audit) = 1

\* ------------------------------------------------------------------------
\* Freshness of the policy (checked under SpecPolicyEdit)
\* ------------------------------------------------------------------------

\* the requested tool is on the global deny list or on the deny list of the
\* role, in the policy as it is now
OnDenyListNow ==
    \/ OnList(GetPolicy.deny_tools, RequestedTool)
    \/ OnList(RoleDenyList, RequestedTool)

AskStep == ppc = "idle" /\ ppc' = "asked"

ExecuteStep == ppc = "asked" /\ ppc' = "executed"

\* C27: policy configuration is read anew on every ask-phase and every
\* execute-phase evaluation: a change of the deny lists made before an
\* evaluation, including between a tool's ask-phase allow and its execute
\* phase, is applied by that evaluation, so a tool that is on a deny list
\* at execute time is always flagged as policy-denied with a reason before
\* it runs.
C27_PolicyReadAnew ==
    [][/\ AskStep =>
             (out'.status = "deny") = (FirstMatchingRule \in {1, 2, 3, 4})
       /\ ExecuteStep =>
             /\ execOut'.policyDenied = OnDenyListNow
             /\ OnDenyListNow => execOut'.policyReason # NoReason]_vars

\* the ask phase allowed the tool for an admin, the tool was then put on
\* the global deny list, and the execute phase flagged it
C27_Witness ==
    /\ ppc = "executed"
    /\ out.status = "allow"
    /\ OnList(GetPolicy.deny_tools, RequestedTool)
    /\ execOut.policyDenied
    /\ execOut.policyReason # NoReason

\* C28: every policy denial raised at the execute phase
\* (tool.execute.before) by a deny-list or deny-pattern match is surfaced
\* with a human-readable reason and is recorded as an audit entry.
C28_ExecuteDenialAudited ==
    (ppc = "executed" /\ execOut.policyDenied) =>
        /\ execOut.policyReason # NoReason
        /\ \E k \in DOMAIN audit :
              /\ audit[k].decision = "deny"
              /\ audit[k].tool = RequestedTool

\* ------------------------------------------------------------------------
\* Properties of truncate and of the persisted summaries (checked under
\* SpecTruncate)
\* ------------------------------------------------------------------------

\* the string truncate works on: the value, or its JSON serialization
Serialized(value) ==
    IF value.type = "string" THEN value.str ELSE Stringify(value)

\* a persisted summary of the value is within the limit and, when it is
\* shorter than the serialized value, ends with the ellipsis
WithinLimit(value, summary) ==
    summary.has =>
        /\ Len(summary.v) <= DefaultMax
        /\ summary.v # Serialized(value) =>
              summary.v[Len(summary.v)] = Ellipsis

\* C29: every inputSummary and outputSummary persisted by Audit.record has
\* at most 1024 characters, and a summary that was shortened ends with the
\* ellipsis character.
C29_SummariesWithinLimit ==
    \A k \in DOMAIN summaryRows :
        /\ WithinLimit(summaryRows[k].input.inputSummary,
                       summaryRows[k].input_summary)
        /\ WithinLimit(summaryRows[k].input.outputSummary,
                       summaryRows[k].output_summary)

\* C30: truncate(value, max) returns undefined for null or undefined,
\* returns the string (the JSON serialization for a non-string) unchanged
\* when its length is <= max, and otherwise returns its first max
\* characters followed by one ellipsis character, so the result has length
\* max + 1 (truncate("abcdefghij", 5) = "abcde..."; a 2000-character input
\* with max 1024 yields 1025 characters).
C30_TruncateResult ==
    lastTruncate.called =>
        LET value == lastTruncate.value
            max == MaxOr(lastTruncate.max)
            returned == lastTruncate.returned
        IN  IF value.type \in {"undefined", "null"} THEN returned = None
            ELSE /\ returned.has
                 /\ IF Len(Serialized(value)) <= max
                      THEN returned.v = Serialized(value)
                      ELSE /\ Len(returned.v) = max + 1
                           /\ SubSeq(returned.v, 1, max)
                                 = SubSeq(Serialized(value), 1, max)
                           /\ returned.v[max + 1] = Ellipsis
                 /\ (value = StringValue(S_abcdefghij) /\ max = CustomMax)
                       => returned.v = <<"a", "b", "c", "d", "e", Ellipsis>>
                 /\ (value = StringValue(Repeat(LongLength))
                       /\ max = DefaultMax)
                       => Len(returned.v) = DefaultMax + 1

\* truncate("abcdefghij", 5) has returned the five characters and the
\* ellipsis
C30_Witness ==
    /\ lastTruncate.called
    /\ lastTruncate.value = StringValue(S_abcdefghij)
    /\ lastTruncate.max = Some(CustomMax)
    /\ lastTruncate.returned = Some(<<"a", "b", "c", "d", "e", Ellipsis>>)

\* ------------------------------------------------------------------------
\* RedactionPlugin "tool.execute.after"
\* ------------------------------------------------------------------------

\* the hook ran with the admin principal bound
RanAsAdmin == afterRun.called /\ afterRun.user.role = "admin"

\* the hook ran with another principal bound, or with none
RanAsOther == afterRun.called /\ afterRun.user.role # "admin"

\* C31: when the bound principal is admin the hook leaves output.output and
\* output.metadata unchanged and records no audit entry; for any other
\* principal, or none, the tool output is scanned.
C31_AdminBypassesRedaction ==
    /\ RanAsAdmin => toolOutput = afterRun.before /\ redactTrail = <<>>
    /\ RanAsOther =>
          /\ afterRun.scanned
          /\ afterRun.findings = RedactSecrets(afterRun.before.output).findings

\* an admin's tool output that holds a secret went through the hook untouched
C31_Witness ==
    /\ RanAsAdmin
    /\ RedactSecrets(afterRun.before.output).findings # <<>>
    /\ toolOutput = afterRun.before

\* the entry holds the number of findings and the set of their pattern names,
\* and nothing else about them
CarriesCountAndTypesOnly(e, findings) ==
    /\ e.action = "secret.redacted"
    /\ DOMAIN e.metadata = {"count", "types"}
    /\ e.metadata.count = Len(findings)
    /\ e.metadata.types = {findings[k].type : k \in DOMAIN findings}

\* what every run for a non-admin principal leaves, n being the number of
\* entries a scan with findings must leave
RedactionRecorded(n) ==
    RanAsOther =>
        /\ afterRun.findings = <<>> =>
              redactTrail = <<>> /\ toolOutput = afterRun.before
        /\ afterRun.findings # <<>> => Len(redactTrail) = n
        /\ \A k \in DOMAIN redactTrail :
              CarriesCountAndTypesOnly(redactTrail[k], afterRun.findings)

\* C32 as stated: for a non-admin principal the hook records exactly one
\* secret.redacted entry when the scan has at least one finding and none when
\* it has none (the output is then unchanged); the entry carries only the
\* number of findings and the set of distinct pattern names.
C32_Original == RedactionRecorded(1)

\* C32 amended: as stated, except that a scan with findings leaves no entry
\* when the audit write fails at the insert.
C32_OneEntryUnlessWriteFails ==
    RedactionRecorded(IF afterRun.fault = "insert" THEN 0 ELSE 1)

\* a scan with findings left its one entry
C32_Witness ==
    /\ RanAsOther
    /\ afterRun.findings # <<>>
    /\ Len(redactTrail) = 1
    /\ CarriesCountAndTypesOnly(redactTrail[1], afterRun.findings)

\* the output.metadata.output the hook was handed is a string with text that
\* a secret pattern matches
MetaHeldSecret ==
    /\ afterRun.before.metaOutput.has
    /\ RedactSecrets(afterRun.before.metaOutput.v).findings # <<>>

\* C39: after the hook has run for a non-admin principal, a string
\* output.metadata.output that contains text matched by a secret pattern has
\* been passed through redaction, whether or not output.output had a finding.
C39_MetadataOutputRedacted ==
    RanAsOther /\ MetaHeldSecret =>
        toolOutput.metaOutput =
            Some(RedactSecrets(afterRun.before.metaOutput.v).redacted)

\* ------------------------------------------------------------------------
\* Budget.check: order of the ceilings, ceilings of 0
\* ------------------------------------------------------------------------

ToolCallsBreached ==
    ReachedNonZero(budget.limits.maxToolCalls, budget.toolCalls)

TokensBreached == ReachedNonZero(budget.limits.maxTokens, budget.totalTokens)

TimeoutBreached == ReachedNonZero(budget.limits.timeoutMs, Elapsed)

\* two ceilings at least are breached at once
SeveralBreached ==
    \/ ToolCallsBreached /\ TokensBreached
    \/ ToolCallsBreached /\ TimeoutBreached
    \/ TokensBreached /\ TimeoutBreached

\* C33: when several budget limits are breached at the same time, Budget.check
\* reports exactly one violation, chosen in the fixed order tool-call ceiling,
\* then token ceiling, then elapsed-time ceiling.
C33_FirstBreachedCeilingReported ==
    lastCheck.called /\ SeveralBreached =>
        /\ lastCheck.returned.has
        /\ lastCheck.returned.v =
              IF ToolCallsBreached
                THEN [exceeded |-> "Tool call", used |-> budget.toolCalls,
                      limit |-> budget.limits.maxToolCalls.v]
                ELSE [exceeded |-> "Token", used |-> budget.totalTokens,
                      limit |-> budget.limits.maxTokens.v]

\* the three ceilings are breached at once and the tool-call one is reported
C33_Witness ==
    /\ lastCheck.called
    /\ ToolCallsBreached /\ TokensBreached /\ TimeoutBreached
    /\ lastCheck.returned.has
    /\ lastCheck.returned.v.exceeded = "Tool call"

\* the token ceiling and the elapsed-time ceiling are breached, the tool-call
\* one is not, and the token one is reported
C33_TokenBeforeTimeout ==
    /\ lastCheck.called
    /\ ~ToolCallsBreached /\ TokensBreached /\ TimeoutBreached
    /\ lastCheck.returned.v.exceeded = "Token"

\* the dimensions whose limit is configured as 0
ZeroLimited ==
    {d \in {"Tool call", "Token", "Timeout"} :
        Some(0) = (CASE d = "Tool call" -> budget.limits.maxToolCalls
                     [] d = "Token" -> budget.limits.maxTokens
                     [] d = "Timeout" -> budget.limits.timeoutMs)}

\* the tracker as it would be with the limits of 0 absent
WithoutZeroLimits ==
    [budget EXCEPT
        !.limits = [k \in DOMAIN budget.limits |->
                      IF budget.limits[k] = Some(0) THEN None
                      ELSE budget.limits[k]]]

\* C40: a budget limit configured as 0 behaves exactly like an absent limit:
\* Budget.check never reports a violation for that dimension, whatever the
\* counters or the elapsed time.
C40_ZeroLimitIsNoLimit ==
    lastCheck.called =>
        /\ lastCheck.returned.has =>
              lastCheck.returned.v.exceeded \notin ZeroLimited
        /\ lastCheck.returned = Check(WithoutZeroLimits, clock)

\* a tracker whose three limits are 0 has recorded calls and tokens, time has
\* passed, and the check reports nothing
C40_Witness ==
    /\ lastCheck.called
    /\ ZeroLimited = {"Tool call", "Token", "Timeout"}
    /\ budget.toolCalls > 0 /\ budget.totalTokens > 0 /\ Elapsed > 0
    /\ ~lastCheck.returned.has

\* ------------------------------------------------------------------------
\* The policy hooks for a viewer and for no principal
\* ------------------------------------------------------------------------

ViewerBound == BoundPrincipal # Undefined /\ BoundPrincipal.role = "viewer"

\* the capabilities of the read-only tools
ReadOnlyCapabilities == {"tool.read", "tool.grep", "tool.glob", "tool.list"}

OnViewerDenyLists ==
    \/ OnList(GetPolicy.deny_tools, RequestedTool)
    \/ OnList(GetPolicy.viewer_deny_tools, RequestedTool)

\* C37: with no principal bound, the policy hooks treat the request as role
\* viewer for deny-list purposes (the global and viewer deny lists apply in
\* both the ask and the execute phase) and never set the decision to allow:
\* the outcome is deny or the status is left unchanged.
C37_NoPrincipalIsViewer ==
    [][BoundPrincipal = Undefined =>
          /\ out'.status \in {"deny", out.status}
          /\ AskStep => (OnViewerDenyLists => out'.status = "deny")
          /\ ExecuteStep => execOut'.policyDenied = OnViewerDenyLists]_vars

\* with no principal bound a tool was left pending by the ask phase, was then
\* put on the viewer deny list, and the execute phase flagged it
C37_Witness ==
    /\ BoundPrincipal = Undefined
    /\ ppc = "executed"
    /\ out.status = "ask"
    /\ ~OnList(GetPolicy.deny_tools, RequestedTool)
    /\ OnList(GetPolicy.viewer_deny_tools, RequestedTool)
    /\ execOut.policyDenied

\* ------------------------------------------------------------------------
\* Retention.sweep: the counts it returns
\* ------------------------------------------------------------------------

\* C34: Retention.sweep returns the counts of the items it deleted in that
\* sweep: sessions equals the number of sessions removed and auditLogs equals
\* the number of audit rows removed; a session whose removal fails is not
\* counted and does not stop the removal of the remaining sessions or the
\* audit purge.
C34_SweepCountsWhatItDeleted ==
    [][lastSweep'.called =>
          /\ lastSweep'.sessions =
                Cardinality(sessionTable) - Cardinality(sessionTable')
          /\ lastSweep'.auditLogs =
                Cardinality(auditLogTable) - Cardinality(auditLogTable')]_vars

\* ------------------------------------------------------------------------
\* git push protection (checked under SpecPush)
\* ------------------------------------------------------------------------

\* positions a..b of the command hold one whole word: no space inside, a
\* space or an end of the command on either side
IsWordSpan(command, a, b) ==
    /\ 1 <= a /\ a <= b /\ b <= Len(command)
    /\ \A j \in a .. b : command[j] # " "
    /\ a = 1 \/ command[a - 1] = " "
    /\ b = Len(command) \/ command[b + 1] = " "

\* the words of the command
WordsIn(command) ==
    {SubSeq(command, a, b) : <<a, b>> \in
        {x \in (1 .. Len(command)) \X (1 .. Len(command)) :
            IsWordSpan(command, x[1], x[2])}}

\* the command is a git push: the word git, in any case, followed by the
\* word push
IsGitPushCommand(command) ==
    \E a \in 1 .. Len(command), c \in 1 .. Len(command) :
        /\ IsWordSpan(command, a, a + 2)
        /\ ToLowerCase(SubSeq(command, a, a + 2)) = <<"g", "i", "t">>
        /\ c > a + 3
        /\ \A j \in a + 3 .. c - 1 : command[j] = " "
        /\ IsWordSpan(command, c, c + 3)
        /\ ToLowerCase(SubSeq(command, c, c + 3)) = <<"p", "u", "s", "h">>

\* one of the words is --force, -f or --force-with-lease
CarriesForceFlag(command) ==
    WordsIn(command) \cap {<<"-", "-", "f", "o", "r", "c", "e">>, <<"-", "f">>, <<"-", "-", "f", "o", "r", "c", "e", "-", "w", "i", "t", "h", "-", "l", "e", "a", "s", "e">>} # {}

\* one of the words is the branch main, master or release/*
TargetsProtectedBranch(command) ==
    \E w \in WordsIn(command) :
        \/ w \in {<<"m", "a", "i", "n">>, <<"m", "a", "s", "t", "e", "r">>}
        \/ Len(w) >= 8 /\ SubSeq(w, 1, 8) = <<"r", "e", "l", "e", "a", "s", "e", "/">>

\* C35: analyzeGitPush blocks a command if and only if the role is not admin
\* and the command is a git push that carries a force flag (--force, -f,
\* --force-with-lease) or targets a protected branch (main, master,
\* release/*): non-push commands and every push by an admin are never
\* blocked, and a non-admin push to an unprotected branch without a force
\* flag is never blocked.
C35_BlockedIffProtectedOrForced ==
    lastAnalysis.called =>
        (lastAnalysis.result.blocked <=>
            /\ pushRole # "admin"
            /\ IsGitPushCommand(pushCommand)
            /\ \/ CarriesForceFlag(pushCommand)
               \/ TargetsProtectedBranch(pushCommand))

\* ------------------------------------------------------------------------
\* Retention scheduler (checked under SpecSched)
\* ------------------------------------------------------------------------

\* C38: for every interleaving of Retention.start, Retention.stop and timer
\* firings, once stop() has returned no retention sweep begins until start()
\* is called again, including when stop() is called within the 30-second
\* initial delay after start().
C38_NoSweepAfterStop ==
    [][lastFired' # "none" => lastSchedCall # "stop"]_vars

====
